---------------------------- MODULE Spec2Model ----------------------------
(***************************************************************************)
(* A model of rusty-boids: the spatial index (CacheGrid), the per-frame    *)
(* systems of BoidsPlugin and the species-table editing of the UI.         *)
(*                                                                         *)
(* Numbers.  Positions, radii and window sizes are f32 values in the       *)
(* code; the model draws them from the whole numbers, on which the         *)
(* arithmetic used here (+, -, comparison, division by the chunk size      *)
(* followed by a cast) is exact in f32.  A position is <<x, y>>.           *)
(*                                                                         *)
(* Frames.  A system whose access excludes every other system while it     *)
(* runs is one step; cache_grid_update_system and the three scans have a   *)
(* start and a finish, and a scan's tasks each walk their chunk in one     *)
(* step.  Commands and the state change that State::set schedules take     *)
(* effect when the frame ends.  update_factors_system touches only         *)
(* sprites and is left out.  In the frame model no position comes near     *)
(* the ends of the i8 cell range, so the build profile plays no part.      *)
(***************************************************************************)
EXTENDS Integers, Sequences, FiniteSets, TLC

VARIABLES
    cache_grid,       \* CacheGrid: [grid, associations]
    indexed_pos,      \* history: the position last handed to update_entity, per entity
    nearby,           \* the Vec returned by the last get_nearby_entities call, or NoCall
    last_update,      \* history: the last update_entity call made directly, or NoCall
    crashed,          \* the process has panicked
    overflow_checks,  \* build profile: TRUE when integer overflow panics (debug)
    creatures,        \* the live entities: entity -> [pos, dir, type, changed]
    next_entity,      \* the next Entity id the world hands out
    commands,         \* Commands queued by this frame's systems, applied at its end
    events,           \* Events<ApplyForceEvent> not yet read by apply_force_event_system
    sim_state,        \* State<SimState>: the current state
    scheduled,        \* State<SimState>: the state set() has scheduled, or "None"
    window,           \* the primary window: [width, height]
    thread_num,       \* ComputeTaskPool::thread_num()
    frame,            \* frames begun so far
    phase,            \* "idle" between frames, "frame" inside one
    input,            \* this frame's input: keys, mouse click, cursor, Time::delta
    sys,              \* this frame's systems: "idle", "running" or "done"
    tasks,            \* the running scan's spawned tasks: chunk and whether it finished
    channel,          \* the running scan's mpsc channel
    last_finished,    \* history: the system that finished last in this frame
    factor_info,              \* settings panel: FactorInfo.factors, CreatureType(i) -> Factors
    selected_creature_type,   \* settings panel: the index chosen in the "Select" box
    creature_type_of,         \* settings panel: each live entity's CreatureType(i)
    ui_commands,              \* settings panel: entities factors_system has asked to despawn
    ui_input,                 \* settings panel: this frame's choice and button click
    ui_ran,                   \* settings panel: the systems that have run in this frame
    ui_phase,                 \* settings panel: "idle" between frames, "frame" inside one
    ui_panicked,              \* settings panel: a system has panicked
    population_information,   \* settings panel: the counts statistics_system last made
    features,                 \* settings panel: the Features checkboxes
    agents,                   \* lifecycle: entity -> [pos, type, energy, fertility_timer]
    max_energy,               \* lifecycle: species -> the Max Energy slider's value
    life_ran,                 \* lifecycle: the passes that have run in this tick
    life_queue,               \* lifecycle: the entities asked to be despawned
    reproduced,               \* lifecycle: the entities that reproduced in this tick
    scan_order,               \* task pool: the scans that have returned in this frame, in order
    drained,                  \* task pool: the events the running scan's receiver has passed on
    is_wasm,                  \* build: IS_WASM, the scans are the single-threaded systems
    all_factors               \* the resource HashMap<CreatureType, Factors>

grid_vars == <<cache_grid, indexed_pos, nearby, last_update, crashed, overflow_checks>>

world_vars == <<creatures, next_entity, commands, events, sim_state, scheduled,
                window, thread_num>>

frame_vars == <<frame, phase, input, sys, tasks, channel, last_finished>>

ui_vars == <<factor_info, selected_creature_type, creature_type_of, ui_commands,
             ui_input, ui_ran, ui_phase, ui_panicked, population_information>>
life_vars == <<agents, max_energy, life_ran, life_queue, reproduced>>
pool_vars == <<scan_order, drained>>
build_vars == <<is_wasm, all_factors>>
settings_vars == <<features, life_vars, pool_vars, build_vars>>
vars == <<grid_vars, world_vars, frame_vars, ui_vars, settings_vars>>

----------------------------------------------------------------------------
(* Bounds of the model *)

\* entity ids the index is exercised with
MaxEntities == 2

----------------------------------------------------------------------------
(* Program constants *)

CHUNK_RESOLUTION == 20

\* the range of i8, the type of a cell coordinate
I8_MIN == -128
I8_MAX == 127

----------------------------------------------------------------------------
(* Helpers *)

Range(s) == {s[k] : k \in DOMAIN s}

Abs(n) == IF n < 0 THEN -n ELSE n

\* squared Euclidean distance of two positions
Dist2(p, q) == (p[1] - q[1]) * (p[1] - q[1]) + (p[2] - q[2]) * (p[2] - q[2])

\* a set of integers as the ascending sequence of its elements
RECURSIVE SetToSeq(_)
SetToSeq(S) ==
    IF S = {} THEN <<>>
    ELSE LET m == CHOOSE x \in S : \A y \in S : x <= y
         IN <<m>> \o SetToSeq(S \ {m})

----------------------------------------------------------------------------
(* CacheGrid *)

\* `(a / b) as iN` on whole a and b > 0: the quotient rounded toward zero
TruncDiv(a, b) == IF a >= 0 THEN a \div b ELSE -((-a) \div b)

\* `x.ceil()` of x = a / b, for a >= 0 and b > 0
CeilDiv(a, b) == (a + b - 1) \div b

\* `as i8` from f32 saturates at the ends of the i8 range
SatI8(n) == IF n < I8_MIN THEN I8_MIN ELSE IF n > I8_MAX THEN I8_MAX ELSE n

\* i8 + i8 in a build without overflow checks: two's complement wrap
WrapI8(n) == ((n - I8_MIN) % (I8_MAX - I8_MIN + 1)) + I8_MIN

\* `(c / CHUNK_RESOLUTION as f32) as i8`
CellIndex(c) == SatI8(TruncDiv(c, CHUNK_RESOLUTION))

\* A vector that has gone bad has NaN in both components and is written NaN;
\* `NaN as i8` is 0.
NaN == <<>>

IsNaN(v) == v = NaN

\* the cell update_entity files a position under: (i, j) = (row of y, column of x)
CellOf(pos) ==
    IF IsNaN(pos) THEN <<0, 0>> ELSE <<CellIndex(pos[2]), CellIndex(pos[1])>>

EmptyCacheGrid == [grid |-> <<>>, associations |-> <<>>]

\* a slip: the old cell is left as it is
RemoveFromCellNot(grid, cell, entity) == grid

\* set.remove(&entity), and the cell is dropped when that empties it
RemoveFromCell(grid, cell, entity) ==
    IF cell \notin DOMAIN grid THEN grid
    ELSE IF grid[cell] \ {entity} = {}
         THEN [c \in DOMAIN grid \ {cell} |-> grid[c]]
         ELSE [grid EXCEPT ![cell] = @ \ {entity}]

\* the cell is created when absent, then the entity inserted
InsertIntoCell(grid, cell, entity) ==
    [c \in DOMAIN grid \cup {cell} |->
        IF c = cell
        THEN (IF cell \in DOMAIN grid THEN grid[cell] ELSE {}) \cup {entity}
        ELSE grid[c]]

SetAssociation(associations, entity, cell) ==
    [e \in DOMAIN associations \cup {entity} |->
        IF e = entity THEN cell ELSE associations[e]]

\* a slip: insert first, then clear the old cell, without the same-cell return
UpdateEntityInsertFirst(cg, entity, pos) ==
    LET cell == CellOf(pos)
        g1   == InsertIntoCell(cg.grid, cell, entity)
        g2   == IF entity \in DOMAIN cg.associations
                THEN RemoveFromCell(g1, cg.associations[entity], entity)
                ELSE g1
    IN [grid |-> g2, associations |-> SetAssociation(cg.associations, entity, cell)]

\* a slip: the entity is never taken out of its old cell
UpdateEntityKeepOld(cg, entity, pos) ==
    LET cell == CellOf(pos)
    IN IF entity \in DOMAIN cg.associations /\ cg.associations[entity] = cell
       THEN cg
       ELSE [grid |-> InsertIntoCell(cg.grid, cell, entity),
             associations |-> SetAssociation(cg.associations, entity, cell)]

\* CacheGrid::update_entity
UpdateEntity(cg, entity, pos) ==
    LET cell == CellOf(pos)
        has  == entity \in DOMAIN cg.associations
    IN IF has /\ cg.associations[entity] = cell
       THEN cg
       ELSE LET g1 == IF has
                      THEN RemoveFromCell(cg.grid, cg.associations[entity], entity)
                      ELSE cg.grid
            IN [grid |-> InsertIntoCell(g1, cell, entity),
                associations |-> SetAssociation(cg.associations, entity, cell)]

\* i_to and j_to: `(radius * 2.0 / CHUNK_RESOLUTION as f32).ceil() as i8`
CellSpan(radius) == SatI8(CeilDiv(2 * radius, CHUNK_RESOLUTION))

\* i_begin (from y) and j_begin (from x)
CellBegin(c, radius) == CellIndex(c - radius)

\* `i_begin + i_to` leaves the i8 range
QueryOverflows(position, radius) ==
    /\ ~IsNaN(position)
    /\ \/ CellBegin(position[2], radius) + CellSpan(radius) > I8_MAX
       \/ CellBegin(position[1], radius) + CellSpan(radius) > I8_MAX

\* the cells get_nearby_entities visits, in the order of its two loops
QueryCells(position, radius) ==
    LET i_begin == IF IsNaN(position) THEN 0 ELSE CellBegin(position[2], radius)
        j_begin == IF IsNaN(position) THEN 0 ELSE CellBegin(position[1], radius)
        i_end   == WrapI8(i_begin + CellSpan(radius))
        j_end   == WrapI8(j_begin + CellSpan(radius))
    IN [i_begin |-> i_begin, i_end |-> i_end, j_begin |-> j_begin, j_end |-> j_end]

\* the occupied cells of the rectangle, in the order the two loops reach them
CellsInRange(grid, q) ==
    {c \in DOMAIN grid : /\ q.i_begin <= c[1] /\ c[1] <= q.i_end
                          /\ q.j_begin <= c[2] /\ c[2] <= q.j_end}

CellBefore(c, d) == c[1] < d[1] \/ (c[1] = d[1] /\ c[2] <= d[2])

\* result.extend(set.iter()) for each of them (a cell's entities by ascending id)
RECURSIVE CollectCells(_, _)
CollectCells(grid, cells) ==
    IF cells = {} THEN <<>>
    ELSE LET c == CHOOSE x \in cells : \A y \in cells : CellBefore(x, y)
         IN SetToSeq(grid[c]) \o CollectCells(grid, cells \ {c})

\* CacheGrid::get_nearby_entities, where the additions do not panic
GetNearbyEntities(cg, position, radius) ==
    LET q == QueryCells(position, radius)
    IN CollectCells(cg.grid, CellsInRange(cg.grid, q))

----------------------------------------------------------------------------
(* Vec2.  Every world of the model keeps its agents on one horizontal     *)
(* line with headings along it, so that each vector the systems compute   *)
(* lies on an axis and normalize() is exact.                              *)

Sgn(n) == IF n > 0 THEN 1 ELSE IF n < 0 THEN -1 ELSE 0

VAdd(a, b) == IF IsNaN(a) \/ IsNaN(b) THEN NaN ELSE <<a[1] + b[1], a[2] + b[2]>>

VSub(a, b) == IF IsNaN(a) \/ IsNaN(b) THEN NaN ELSE <<a[1] - b[1], a[2] - b[2]>>

VScale(k, a) == IF IsNaN(a) THEN NaN ELSE <<k * a[1], k * a[2]>>

RECURSIVE VSum(_)
VSum(vs) == IF vs = <<>> THEN <<0, 0>> ELSE VAdd(Head(vs), VSum(Tail(vs)))

\* Vec2::normalize: v * (1 / |v|); the zero vector gives 0 * inf = NaN.  A
\* vector off both axes has no exact unit vector here and is left as its ray.
Normalize(v) ==
    IF IsNaN(v) \/ v = <<0, 0>> THEN NaN
    ELSE IF v[2] = 0 THEN <<Sgn(v[1]), 0>>
    ELSE IF v[1] = 0 THEN <<0, Sgn(v[2])>>
    ELSE [ray |-> v]

IsUnit(v) == ~IsNaN(v) /\ v[1] * v[1] + v[2] * v[2] = 1

\* `a.distance(b) <= r`; false when either is NaN
Within(a, b, r) == ~IsNaN(a) /\ ~IsNaN(b) /\ Dist2(a, b) <= r * r

\* `a.distance(b) <= r / 2.0`
WithinHalf(a, b, r) == ~IsNaN(a) /\ ~IsNaN(b) /\ 4 * Dist2(a, b) <= r * r

\* Vec2::lerp(a, b, t) = a + (b - a) * t for t = factor * delta, times 20.
\* Factors are held in quarters and delta in fifths of a second, so
\* 20 * t = factor4 * delta5.
LerpScaled(a, b, factor4, delta5) ==
    IF IsNaN(a) \/ IsNaN(b) THEN NaN
    ELSE <<(20 - factor4 * delta5) * a[1] + factor4 * delta5 * b[1],
           (20 - factor4 * delta5) * a[2] + factor4 * delta5 * b[2]>>

\* Direction::lerp
DirectionLerp(dir, other, factor4, delta5) ==
    Normalize(LerpScaled(dir, other, factor4, delta5))

----------------------------------------------------------------------------
(* Species *)

CreatureTypes == {"A", "B", "C"}

\* BoidsPlugin::default; the six weights are in quarters (cohesion 1.0 is 4)
AllFactors ==
    [A |-> [speed |-> 70, vision |-> 20, size_x |-> 4,
            cohesion |-> 4, separation |-> 4, alignment |-> 12,
            collision_avoidance |-> 14, scare |-> 40, chase |-> 0,
            scared_of |-> {"B", "C"}, will_chase |-> {}],
     B |-> [speed |-> 60, vision |-> 30, size_x |-> 8,
            cohesion |-> 2, separation |-> 2, alignment |-> 8,
            collision_avoidance |-> 8, scare |-> 0, chase |-> 8,
            scared_of |-> {}, will_chase |-> {"A", "C"}],
     C |-> [speed |-> 65, vision |-> 25, size_x |-> 6,
            cohesion |-> 3, separation |-> 3, alignment |-> 10,
            collision_avoidance |-> 12, scare |-> 20, chase |-> 4,
            scared_of |-> {"B"}, will_chase |-> {"A"}]]

----------------------------------------------------------------------------
(* Movement *)

\* move_system: translation += direction * speed * delta, for every creature
MoveSystem(cs, delta5) ==
    [e \in DOMAIN cs |->
        [cs[e] EXCEPT
            !.pos = IF IsNaN(cs[e].dir) THEN NaN
                    ELSE VAdd(@, <<(cs[e].dir[1] * AllFactors[cs[e].type].speed * delta5) \div 5,
                                   (cs[e].dir[2] * AllFactors[cs[e].type].speed * delta5) \div 5>>),
            !.changed = TRUE]]

\* a slip: no margin of 1 at the border that is wrapped to
WrapCoordNoMargin(c, extent) ==
    IF 2 * c >= extent THEN -(extent \div 2)
    ELSE IF 2 * c <= -extent THEN extent \div 2
    ELSE c

\* one coordinate of wrap_borders_system, for a window extent that is even
WrapCoord(c, extent) ==
    IF 2 * c >= extent THEN -(extent \div 2) + 1
    ELSE IF 2 * c <= -extent THEN (extent \div 2) - 1
    ELSE c

WrapPos(pos, win) ==
    IF IsNaN(pos) THEN NaN
    ELSE <<WrapCoord(pos[1], win.width), WrapCoord(pos[2], win.height)>>

\* wrap_borders_system; a Transform counts as changed only when assigned to
WrapBordersSystem(cs, win) ==
    [e \in DOMAIN cs |->
        [cs[e] EXCEPT !.pos = WrapPos(@, win),
                      !.changed = @ \/ WrapPos(cs[e].pos, win) # cs[e].pos]]

\* cache_grid_update_system: update_entity for each creature whose Transform
\* changed since the system last ran
RECURSIVE UpdateAll(_, _, _)
UpdateAll(cg, cs, todo) ==
    IF todo = {} THEN cg
    ELSE LET e == CHOOSE x \in todo : \A y \in todo : x <= y
         IN UpdateAll(UpdateEntity(cg, e, cs[e].pos), cs, todo \ {e})

ChangedCreatures(cs) == {e \in DOMAIN cs : cs[e].changed}

CacheGridUpdateSystem(cg, cs) == UpdateAll(cg, cs, ChangedCreatures(cs))

ClearChanged(cs) == [e \in DOMAIN cs |-> [cs[e] EXCEPT !.changed = FALSE]]

----------------------------------------------------------------------------
(* The scans.  An intent is ApplyForceEvent(entity, force, factor).       *)

ForceEvent(entity, force, factor) ==
    [entity |-> entity, force |-> force, factor |-> factor]

RECURSIVE FilterSeq(_, _)
FilterSeq(s, keep) ==
    IF s = <<>> THEN <<>>
    ELSE (IF Head(s) \in keep THEN <<Head(s)>> ELSE <<>>) \o FilterSeq(Tail(s), keep)

\* the candidates of a's scan, in the order the index returns them
Candidates(cs, cg, a) ==
    GetNearbyEntities(cg, cs[a].pos, AllFactors[cs[a].type].vision)

\* a slip: the test `type_a != type_b` is left out
FlockingIntentsAnySpecies(cs, cg, a) ==
    LET factors  == AllFactors[cs[a].type]
        pa       == cs[a].pos
        same     == FilterSeq(Candidates(cs, cg, a), {b \in DOMAIN cs : b # a})
        seen     == FilterSeq(same, {b \in DOMAIN cs : Within(pa, cs[b].pos, factors.vision)})
        close    == FilterSeq(same, {b \in DOMAIN cs : WithinHalf(pa, cs[b].pos, factors.vision)})
        touching == FilterSeq(same, {b \in DOMAIN cs : Within(pa, cs[b].pos, 2 * factors.size_x)})
        average_position       == VSum([k \in DOMAIN seen |-> cs[seen[k]].pos])
        average_direction      == VSum([k \in DOMAIN seen |-> cs[seen[k]].dir])
        average_close_position == VSum([k \in DOMAIN close |-> cs[close[k]].pos])
    IN [k \in DOMAIN touching |->
            ForceEvent(a, Normalize(VSub(pa, cs[touching[k]].pos)),
                       factors.collision_avoidance)]
       \o (IF Len(seen) > 0
           THEN <<ForceEvent(a, Normalize(VSub(average_position, VScale(Len(seen), pa))),
                             factors.cohesion),
                  ForceEvent(a, Normalize(average_direction), factors.alignment)>>
           ELSE <<>>)
       \o (IF Len(close) > 0
           THEN <<ForceEvent(a, Normalize(VSub(VScale(Len(close), pa), average_close_position)),
                             factors.separation)>>
           ELSE <<>>)

\* parallel_flocking_system, the body run for one creature a of a chunk
FlockingIntents(cs, cg, a) ==
    LET factors  == AllFactors[cs[a].type]
        pa       == cs[a].pos
        same     == FilterSeq(Candidates(cs, cg, a),
                              {b \in DOMAIN cs : b # a /\ cs[b].type = cs[a].type})
        seen     == FilterSeq(same, {b \in DOMAIN cs : Within(pa, cs[b].pos, factors.vision)})
        close    == FilterSeq(same, {b \in DOMAIN cs : WithinHalf(pa, cs[b].pos, factors.vision)})
        touching == FilterSeq(same, {b \in DOMAIN cs : Within(pa, cs[b].pos, 2 * factors.size_x)})
        average_position       == VSum([k \in DOMAIN seen |-> cs[seen[k]].pos])
        average_direction      == VSum([k \in DOMAIN seen |-> cs[seen[k]].dir])
        average_close_position == VSum([k \in DOMAIN close |-> cs[close[k]].pos])
    IN [k \in DOMAIN touching |->
            ForceEvent(a, Normalize(VSub(pa, cs[touching[k]].pos)),
                       factors.collision_avoidance)]
       \o (IF Len(seen) > 0
           THEN <<ForceEvent(a, Normalize(VSub(average_position, VScale(Len(seen), pa))),
                             factors.cohesion),
                  ForceEvent(a, Normalize(average_direction), factors.alignment)>>
           ELSE <<>>)
       \o (IF Len(close) > 0
           THEN <<ForceEvent(a, Normalize(VSub(VScale(Len(close), pa), average_close_position)),
                             factors.separation)>>
           ELSE <<>>)

\* parallel_scare_system, the body run for one creature a
ScareIntents(cs, cg, a) ==
    LET factors == AllFactors[cs[a].type]
        pa      == cs[a].pos
        feared  == FilterSeq(Candidates(cs, cg, a),
                             {b \in DOMAIN cs : /\ b # a
                                                /\ cs[b].type \in factors.scared_of
                                                /\ Within(pa, cs[b].pos, factors.vision)})
    IN [k \in DOMAIN feared |->
            ForceEvent(a, Normalize(VSub(pa, cs[feared[k]].pos)), factors.scare)]

\* closest_target after the candidates in s: replaced only by a strictly nearer one
RECURSIVE ClosestTarget(_, _, _, _)
ClosestTarget(cs, pa, s, best) ==
    IF s = <<>> THEN best
    ELSE LET position_b == cs[Head(s)].pos
             next == IF best = <<>> \/ Dist2(pa, best[1]) > Dist2(pa, position_b)
                     THEN <<position_b>> ELSE best
         IN ClosestTarget(cs, pa, Tail(s), next)

\* parallel_chase_system, the body run for one creature a
ChaseIntents(cs, cg, a) ==
    LET factors == AllFactors[cs[a].type]
        pa      == cs[a].pos
        prey    == FilterSeq(Candidates(cs, cg, a),
                             {b \in DOMAIN cs : /\ b # a
                                                /\ cs[b].type \in factors.will_chase
                                                /\ Within(pa, cs[b].pos, factors.vision)})
        closest_target == ClosestTarget(cs, pa, prey, <<>>)
    IN IF closest_target = <<>> THEN <<>>
       ELSE <<ForceEvent(a, Normalize(VSub(closest_target[1], pa)), factors.chase)>>

ScanIntents(scan, cs, cg, a) ==
    CASE scan = "flocking" -> FlockingIntents(cs, cg, a)
      [] scan = "scare"    -> ScareIntents(cs, cg, a)
      [] scan = "chase"    -> ChaseIntents(cs, cg, a)

\* the events a task sends while it walks its chunk
RECURSIVE ChunkIntents(_, _, _, _)
ChunkIntents(scan, cs, cg, chunk) ==
    IF chunk = <<>> THEN <<>>
    ELSE ScanIntents(scan, cs, cg, Head(chunk))
         \o ChunkIntents(scan, cs, cg, Tail(chunk))

\* slice::chunks(size) for size > 0
RECURSIVE Chunks(_, _)
Chunks(s, size) ==
    IF s = <<>> THEN <<>>
    ELSE IF Len(s) <= size THEN <<s>>
    ELSE <<SubSeq(s, 1, size)>> \o Chunks(SubSeq(s, size + 1, Len(s)), size)

----------------------------------------------------------------------------
(* The integrator *)

\* a slip: the loop stops one event short of the end of the queue
RECURSIVE ApplyForceEventsButLast(_, _, _)
ApplyForceEventsButLast(cs, evs, delta5) ==
    IF Len(evs) <= 1 THEN cs
    ELSE LET ev == Head(evs)
             next == IF ev.entity \in DOMAIN cs
                     THEN [cs EXCEPT ![ev.entity].dir =
                               DirectionLerp(@, ev.force, ev.factor, delta5)]
                     ELSE cs
         IN ApplyForceEventsButLast(next, Tail(evs), delta5)

\* apply_force_event_system: each event in turn, skipped when its entity is gone
RECURSIVE ApplyForceEvents(_, _, _)
ApplyForceEvents(cs, evs, delta5) ==
    IF evs = <<>> THEN cs
    ELSE LET ev == Head(evs)
             next == IF ev.entity \in DOMAIN cs
                     THEN [cs EXCEPT ![ev.entity].dir =
                               DirectionLerp(@, ev.force, ev.factor, delta5)]
                     ELSE cs
         IN ApplyForceEvents(next, Tail(evs), delta5)

----------------------------------------------------------------------------
(* Input systems and Commands *)

\* kill_system for one Ctrl-click: a despawn command for each creature that
\* none of the four `<` / `>` tests puts outside the box around the cursor
KillSystem(cs, cursor, kill_properties) ==
    LET outside(pos) == \/ pos[1] < cursor[1] - kill_properties.radius
                        \/ pos[1] > cursor[1] + kill_properties.radius
                        \/ pos[2] < cursor[2] - kill_properties.radius
                        \/ pos[2] > cursor[2] + kill_properties.radius
        hit == SetToSeq({e \in DOMAIN cs :
                            /\ IsNaN(cs[e].pos) \/ ~outside(cs[e].pos)
                            /\ cs[e].type \in kill_properties.creature_types})
    IN [k \in DOMAIN hit |-> [op |-> "despawn", entity |-> hit[k]]]

\* spawn_creature: the command that will insert the bundle
SpawnCreature(pos, direction_vector, creature_type) ==
    [op |-> "spawn", pos |-> pos, dir |-> direction_vector, type |-> creature_type]

\* Commands applied at the end of the stage, in the order they were queued
RECURSIVE ApplyCommands(_, _, _)
ApplyCommands(cs, next, cmds) ==
    IF cmds = <<>> THEN [creatures |-> cs, next_entity |-> next]
    ELSE LET c == Head(cmds)
         IN IF c.op = "despawn"
            THEN ApplyCommands([e \in DOMAIN cs \ {c.entity} |-> cs[e]], next, Tail(cmds))
            ELSE ApplyCommands(
                    [e \in DOMAIN cs \cup {next} |->
                        IF e = next
                        THEN [pos |-> c.pos, dir |-> c.dir, type |-> c.type,
                              changed |-> TRUE]
                        ELSE cs[e]],
                    next + 1, Tail(cmds))

\* handle_input_system on a press of P
Toggled(current_sim_state) ==
    IF current_sim_state = "Paused" THEN "Running" ELSE "Paused"

----------------------------------------------------------------------------
(* The schedule BoidsPlugin::build registers *)

Scans == {"flocking", "scare", "chase"}

\* the sets added with on_update(SimState::Running)
OnUpdateRunning == {"move", "wrap", "cache", "apply"} \cup Scans

Systems == {"move", "wrap", "cache", "flocking", "scare", "chase", "apply",
            "handle_input", "kill", "spawn"}

\* a slip: only the scans carry the run criterion
RunsOnlyScansWhenRunning(s) == s \in Scans

\* the systems that run only while the state is SimState::Running
RunsOnlyWhenRunning(s) == s \in OnUpdateRunning

\* a slip: the scans are not told to come after "caching"
AfterNoCaching(s) ==
    CASE s = "cache"  -> {"move", "wrap"}
      [] s \in Scans  -> {}
      [] s = "apply"  -> Scans
      [] OTHER        -> {}

\* a slip: only the "flocking" set is told to come after "caching"
AfterFlockingOnly(s) ==
    CASE s = "cache"    -> {"move", "wrap"}
      [] s = "flocking" -> {"cache"}
      [] s = "apply"    -> Scans
      [] OTHER          -> {}

\* the systems a system is ordered after, from the labels
After(s) ==
    CASE s = "cache"  -> {"move", "wrap"}
      [] s \in Scans  -> {"cache"}
      [] s = "apply"  -> Scans
      [] OTHER        -> {}

\* what each system's parameters let it write
Writes(s) ==
    CASE s \in {"move", "wrap"} -> {"Transform"}
      [] s = "cache"            -> {"CacheGrid"}
      [] s \in Scans            -> {"Events"}
      [] s = "apply"            -> {"Direction"}
      [] s = "handle_input"     -> {"State"}
      [] OTHER                  -> {}

\* what each system's parameters let it read
Reads(s) ==
    CASE s = "move"         -> {"Direction", "CreatureType", "Factors", "Time"}
      [] s = "wrap"         -> {"Windows"}
      [] s = "cache"        -> {"Transform"}
      [] s = "flocking"     -> {"Transform", "Direction", "CreatureType", "Factors", "CacheGrid"}
      [] s \in {"scare", "chase"} -> {"Transform", "CreatureType", "Factors", "CacheGrid"}
      [] s = "apply"        -> {"Events", "Time"}
      [] s = "handle_input" -> {"Input"}
      [] s = "kill"         -> {"Transform", "CreatureType", "Input", "Cursor"}
      [] s = "spawn"        -> {"Factors", "Input", "Cursor"}

Conflict(a, b) ==
    \/ Writes(a) \cap (Reads(b) \cup Writes(b)) # {}
    \/ Writes(b) \cap (Reads(a) \cup Writes(a)) # {}

\* the executor starts a system once the systems it is ordered after have
\* finished and nothing that is running conflicts with its access
CanStart(s) ==
    /\ ~crashed
    /\ phase = "frame"
    /\ sys[s] = "idle"
    /\ RunsOnlyWhenRunning(s) => sim_state = "Running"
    /\ \A d \in After(s) : sys[d] = "done"
    /\ \A r \in Systems : sys[r] = "running" => ~Conflict(s, r)

----------------------------------------------------------------------------
(* Frames *)

MaxFrames == 2
MaxCreatures == 3
MaxThreads == 2

NoCall == [called |-> FALSE]

NoInput == [key_p |-> FALSE, click |-> "none", cursor |-> <<0, 0>>, delta5 |-> 0]

AllIdle == [s \in Systems |-> "idle"]

\* an input system that will find no key press or click of its own does
\* nothing when it runs, and is counted as finished from the start
Ready(in) ==
    [s \in Systems |->
        IF \/ s = "handle_input" /\ ~in.key_p
           \/ s = "kill" /\ in.click # "kill"
           \/ s = "spawn" /\ in.click # "spawn"
        THEN "done" ELSE "idle"]

\* the app is not running: no creature, no frame
WorldAtRest ==
    /\ creatures = <<>>
    /\ next_entity = 1
    /\ commands = <<>>
    /\ events = <<>>
    /\ sim_state = "Running"
    /\ scheduled = "None"
    /\ window = [width |-> 1280, height |-> 720]
    /\ thread_num = 1
    /\ frame = 0
    /\ phase = "idle"
    /\ input = NoInput
    /\ sys = AllIdle
    /\ tasks = <<>>
    /\ channel = <<>>
    /\ last_finished = "none"

\* every checkbox of the Features section ticked
AllFeatures == [chasing |-> TRUE, running |-> TRUE, flocking |-> TRUE]

\* the settings panel is not shown
UiAtRest ==
    /\ factor_info = <<>>
    /\ selected_creature_type = 0
    /\ creature_type_of = <<>>
    /\ ui_commands = {}
    /\ ui_input = [select |-> -1, click |-> "none"]
    /\ ui_ran = {}
    /\ ui_phase = "idle"
    /\ ui_panicked = FALSE
    /\ population_information = <<>>
    /\ features = AllFeatures
    /\ agents = <<>>
    /\ max_energy = <<>>
    /\ life_ran = {}
    /\ life_queue = {}
    /\ reproduced = {}
    /\ scan_order = <<>>
    /\ drained = 0
    /\ is_wasm = FALSE
    /\ all_factors = AllFactors

\* a creature as spawn_creature makes it, on the line y = 0
Creature(x, dx, creature_type) ==
    [pos |-> <<x, 0>>, dir |-> <<dx, 0>>, type |-> creature_type, changed |-> TRUE]

\* populations setup_creatures may have drawn: two of a species facing each
\* other, prey and predator at the right border, one creature alone one
\* frame's travel from the cursor
InitialWorlds ==
    { <<Creature(-10, 1, "C"), Creature(10, -1, "C")>>,
      <<Creature(630, 1, "A"), Creature(612, 1, "B")>>,
      <<Creature(-14, 1, "A")>> }

\* KillProperties::default
KillPropertiesDefault == [radius |-> 100, creature_types |-> CreatureTypes]

\* SpawnProperties::default, with the amount turned down to one
SpawnPropertiesOne == [amount |-> 1, radius |-> 10, creature_type |-> "A"]

Cursors == {<<0, 0>>}
SpawnOffsets == {0}
SpawnHeadings == {<<1, 0>>, <<-1, 0>>}
Deltas == {1}

Init ==
    /\ cache_grid = EmptyCacheGrid
    /\ indexed_pos = <<>>
    /\ nearby = NoCall
    /\ last_update = NoCall
    /\ crashed = FALSE
    /\ overflow_checks = FALSE
    /\ creatures \in InitialWorlds
    /\ next_entity = Len(creatures) + 1
    /\ commands = <<>>
    /\ events = <<>>
    /\ sim_state = "Running"
    /\ scheduled = "None"
    /\ window = [width |-> 1280, height |-> 720]
    /\ thread_num \in 1..MaxThreads
    /\ frame = 0
    /\ phase = "idle"
    /\ input = NoInput
    /\ sys = AllIdle
    /\ tasks = <<>>
    /\ channel = <<>>
    /\ last_finished = "none"
    /\ UiAtRest

index_history == <<indexed_pos, nearby, last_update, overflow_checks>>

Finished(s) ==
    /\ sys' = [sys EXCEPT ![s] = "done"]
    /\ last_finished' = s

\* the frame's input arrives and the stage starts
BeginFrame ==
    /\ ~crashed
    /\ phase = "idle"
    /\ frame < MaxFrames
    /\ \E key_p \in BOOLEAN, click \in {"none", "kill", "spawn"},
          cursor \in Cursors, delta5 \in Deltas :
        /\ click = "spawn" =>
              next_entity + SpawnPropertiesOne.amount - 1 <= MaxCreatures
        /\ input' = [key_p |-> key_p, click |-> click, cursor |-> cursor,
                     delta5 |-> delta5]
    /\ sys' = Ready(input')
    /\ frame' = frame + 1
    /\ phase' = "frame"
    /\ last_finished' = "begin"
    /\ UNCHANGED <<ui_vars, settings_vars, cache_grid, crashed, index_history, world_vars, tasks, channel>>

HandleInputSystem ==
    /\ CanStart("handle_input")
    /\ scheduled' = IF input.key_p THEN Toggled(sim_state) ELSE scheduled
    /\ Finished("handle_input")
    /\ UNCHANGED <<ui_vars, settings_vars, cache_grid, crashed, index_history, creatures, next_entity,
                   commands, events, sim_state, window, thread_num,
                   frame, phase, input, tasks, channel>>

KillSystemRun ==
    /\ CanStart("kill")
    /\ commands' = IF input.click = "kill"
                   THEN commands \o KillSystem(creatures, input.cursor, KillPropertiesDefault)
                   ELSE commands
    /\ Finished("kill")
    /\ UNCHANGED <<ui_vars, settings_vars, cache_grid, crashed, index_history, creatures, next_entity,
                   events, sim_state, scheduled, window, thread_num,
                   frame, phase, input, tasks, channel>>

\* spawn_system for one Shift-click; the position and heading are random
SpawnSystem ==
    /\ CanStart("spawn")
    /\ IF input.click = "spawn"
       THEN \E off \in SpawnOffsets, direction_vector \in SpawnHeadings :
               /\ Abs(off) <= SpawnPropertiesOne.radius
               /\ commands' = Append(commands,
                      SpawnCreature(<<input.cursor[1] + off, input.cursor[2]>>,
                                    direction_vector,
                                    SpawnPropertiesOne.creature_type))
       ELSE commands' = commands
    /\ Finished("spawn")
    /\ UNCHANGED <<ui_vars, settings_vars, cache_grid, crashed, index_history, creatures, next_entity,
                   events, sim_state, scheduled, window, thread_num,
                   frame, phase, input, tasks, channel>>

MoveSystemRun ==
    /\ CanStart("move")
    /\ creatures' = MoveSystem(creatures, input.delta5)
    /\ Finished("move")
    /\ UNCHANGED <<ui_vars, settings_vars, cache_grid, crashed, index_history, next_entity, commands,
                   events, sim_state, scheduled, window, thread_num,
                   frame, phase, input, tasks, channel>>

WrapBordersSystemRun ==
    /\ CanStart("wrap")
    /\ creatures' = WrapBordersSystem(creatures, window)
    /\ Finished("wrap")
    /\ UNCHANGED <<ui_vars, settings_vars, cache_grid, crashed, index_history, next_entity, commands,
                   events, sim_state, scheduled, window, thread_num,
                   frame, phase, input, tasks, channel>>

CacheGridUpdateStart ==
    /\ CanStart("cache")
    /\ sys' = [sys EXCEPT !["cache"] = "running"]
    /\ UNCHANGED <<ui_vars, settings_vars, grid_vars, world_vars, frame, phase, input, tasks, channel,
                   last_finished>>

CacheGridUpdateFinish ==
    /\ sys["cache"] = "running"
    /\ cache_grid' = CacheGridUpdateSystem(cache_grid, creatures)
    /\ creatures' = ClearChanged(creatures)
    /\ Finished("cache")
    /\ UNCHANGED <<ui_vars, settings_vars, crashed, index_history, next_entity, commands,
                   events, sim_state, scheduled, window, thread_num,
                   frame, phase, input, tasks, channel>>

\* a scan collects the creatures, cuts them into chunks and spawns one task
\* per chunk; chunks(0) panics
ScanStart ==
    \E s \in Scans :
        /\ CanStart(s)
        /\ LET creature_vec == SetToSeq(DOMAIN creatures)
               creatures_per_thread == Len(creature_vec) \div thread_num
           IN IF creatures_per_thread = 0
              THEN /\ crashed' = TRUE
                   /\ UNCHANGED <<sys, tasks>>
              ELSE /\ tasks' = [k \in DOMAIN Chunks(creature_vec, creatures_per_thread) |->
                                  [chunk |-> Chunks(creature_vec, creatures_per_thread)[k],
                                   done |-> FALSE]]
                   /\ sys' = [sys EXCEPT ![s] = "running"]
                   /\ UNCHANGED crashed
        /\ UNCHANGED <<ui_vars, settings_vars, cache_grid, index_history, world_vars, frame, phase, input,
                       channel, last_finished>>

\* one task walks its chunk and sends its events down the channel
ScanTask ==
    \E s \in Scans, k \in DOMAIN tasks :
        /\ ~crashed
        /\ sys[s] = "running"
        /\ ~tasks[k].done
        /\ channel' = channel \o ChunkIntents(s, creatures, cache_grid, tasks[k].chunk)
        /\ tasks' = [tasks EXCEPT ![k].done = TRUE]
        /\ UNCHANGED <<ui_vars, settings_vars, grid_vars, world_vars, frame, phase, input, sys, last_finished>>

\* the receiver has passed every event on to the EventWriter
ScanFinish ==
    \E s \in Scans :
        /\ ~crashed
        /\ sys[s] = "running"
        /\ \A k \in DOMAIN tasks : tasks[k].done
        /\ events' = events \o channel
        /\ channel' = <<>>
        /\ tasks' = <<>>
        /\ Finished(s)
        /\ UNCHANGED <<ui_vars, settings_vars, grid_vars, creatures, next_entity, commands, sim_state,
                       scheduled, window, thread_num, frame, phase, input>>

ApplyForceEventSystem ==
    /\ CanStart("apply")
    /\ creatures' = ApplyForceEvents(creatures, events, input.delta5)
    /\ Finished("apply")
    /\ UNCHANGED <<ui_vars, settings_vars, cache_grid, crashed, index_history, next_entity, commands,
                   events, sim_state, scheduled, window, thread_num,
                   frame, phase, input, tasks, channel>>

\* the stage ends: Commands are applied, the scheduled state change is made,
\* the frame's events have been read
EndFrame ==
    /\ ~crashed
    /\ phase = "frame"
    /\ \A s \in Systems :
          (RunsOnlyWhenRunning(s) => sim_state = "Running") => sys[s] = "done"
    /\ creatures' = ApplyCommands(creatures, next_entity, commands).creatures
    /\ next_entity' = ApplyCommands(creatures, next_entity, commands).next_entity
    /\ commands' = <<>>
    /\ events' = <<>>
    /\ sim_state' = IF scheduled = "None" THEN sim_state ELSE scheduled
    /\ scheduled' = "None"
    /\ phase' = "idle"
    /\ input' = NoInput
    /\ sys' = AllIdle
    /\ last_finished' = "end"
    /\ UNCHANGED <<ui_vars, settings_vars, grid_vars, window, thread_num, frame, tasks, channel>>

Next ==
    \/ BeginFrame
    \/ HandleInputSystem
    \/ KillSystemRun
    \/ SpawnSystem
    \/ MoveSystemRun
    \/ WrapBordersSystemRun
    \/ CacheGridUpdateStart
    \/ CacheGridUpdateFinish
    \/ ScanStart
    \/ ScanTask
    \/ ScanFinish
    \/ ApplyForceEventSystem
    \/ EndFrame

Spec == Init /\ [][Next]_vars

\* the app one frame after setup_creatures drew a single creature at x = -28,
\* with P pressed in that frame: the creature has moved once and is indexed,
\* the state is Paused
PausedInit ==
    /\ creatures = ClearChanged(<<Creature(-14, 1, "A")>>)
    /\ cache_grid = CacheGridUpdateSystem(EmptyCacheGrid, <<Creature(-14, 1, "A")>>)
    /\ sim_state = "Paused"
    /\ next_entity = 2
    /\ indexed_pos = <<>>
    /\ nearby = NoCall
    /\ last_update = NoCall
    /\ crashed = FALSE
    /\ overflow_checks = FALSE
    /\ commands = <<>>
    /\ events = <<>>
    /\ scheduled = "None"
    /\ window = [width |-> 1280, height |-> 720]
    /\ thread_num \in 1..MaxThreads
    /\ frame = 0
    /\ phase = "idle"
    /\ input = NoInput
    /\ sys = AllIdle
    /\ tasks = <<>>
    /\ channel = <<>>
    /\ last_finished = "end"
    /\ UiAtRest

\* the frames that follow setup_creatures, or follow a frame that ended Paused
SpecResume == (Init \/ PausedInit) /\ [][Next]_vars

----------------------------------------------------------------------------
(* A scan, step by step.  compute_task_pool.scope runs its closure on the  *)
(* thread of the system: the closure spawns one task per chunk, drops its  *)
(* own sender and iterates the receiver; the pool's threads run the tasks  *)
(* meanwhile.  A task sends its events one at a time and drops its sender  *)
(* clone when its chunk is done; the receiver's iteration ends when every  *)
(* sender is gone and the channel is empty, and the system returns.        *)

\* populations at the point of a frame where the index has been brought up
\* to date: none, one alone, two of a species in touch, prey between two
\* hunters, a hunter between two prey at one distance, two species in touch
ScanWorlds ==
    { <<>>,
      <<Creature(0, 1, "A")>>,
      <<Creature(0, 1, "A"), Creature(6, 1, "A")>>,
      <<Creature(0, 1, "A"), Creature(-12, 1, "B"), Creature(10, -1, "C")>>,
      <<Creature(-10, 1, "A"), Creature(0, 1, "B"), Creature(10, 1, "A")>>,
      <<Creature(0, 1, "A"), Creature(6, 1, "B")>> }

ScanInit ==
    /\ \E world \in ScanWorlds :
          /\ creatures = ClearChanged(world)
          /\ cache_grid = CacheGridUpdateSystem(EmptyCacheGrid, world)
    /\ next_entity = Len(creatures) + 1
    /\ indexed_pos = <<>>
    /\ nearby = NoCall
    /\ last_update = NoCall
    /\ crashed = FALSE
    /\ overflow_checks = FALSE
    /\ commands = <<>>
    /\ events = <<>>
    /\ sim_state = "Running"
    /\ scheduled = "None"
    /\ window = [width |-> 1280, height |-> 720]
    /\ thread_num \in 1..MaxThreads
    /\ frame = 1
    /\ phase = "frame"
    /\ input = [NoInput EXCEPT !.delta5 = 1]
    /\ sys = [s \in Systems |-> IF s \in Scans \cup {"apply"} THEN "idle" ELSE "done"]
    /\ tasks = <<>>
    /\ channel = <<>>
    /\ last_finished = "cache"
    /\ UiAtRest

\* a spawned task: its chunk, the events it sends while it walks the chunk (in
\* that order; what a task reads does not change while the scan runs), how
\* many of them it has sent, and whether it has finished
Task(s, chunk) ==
    [chunk |-> chunk, intents |-> ChunkIntents(s, creatures, cache_grid, chunk),
     sent |-> 0, done |-> FALSE]

TaskIntents(s, task) == task.intents

\* the system collects the creatures and spawns one task per chunk;
\* chunks(0) panics
Dispatch ==
    \E s \in Scans :
        /\ CanStart(s)
        /\ LET creature_vec == SetToSeq(DOMAIN creatures)
               creatures_per_thread == Len(creature_vec) \div thread_num
           IN IF creatures_per_thread = 0
              THEN /\ crashed' = TRUE
                   /\ UNCHANGED <<sys, tasks>>
              ELSE /\ tasks' = [k \in DOMAIN Chunks(creature_vec, creatures_per_thread) |->
                                  Task(s, Chunks(creature_vec, creatures_per_thread)[k])]
                   /\ sys' = [sys EXCEPT ![s] = "running"]
                   /\ UNCHANGED crashed
        /\ UNCHANGED <<ui_vars, settings_vars, cache_grid, index_history, world_vars,
                       frame, phase, input, channel, last_finished>>

\* a slip: the channel hands out the newest event first
WorkerSendFront ==
    \E s \in Scans, k \in DOMAIN tasks :
        /\ ~crashed
        /\ sys[s] = "running"
        /\ tasks[k].sent < Len(TaskIntents(s, tasks[k]))
        /\ channel' = <<TaskIntents(s, tasks[k])[tasks[k].sent + 1]>> \o channel
        /\ tasks' = [tasks EXCEPT ![k].sent = @ + 1]
        /\ UNCHANGED <<ui_vars, settings_vars, grid_vars, world_vars, frame, phase,
                       input, sys, last_finished>>

\* a task sends its next event
WorkerSend ==
    \E s \in Scans, k \in DOMAIN tasks :
        /\ ~crashed
        /\ sys[s] = "running"
        /\ tasks[k].sent < Len(TaskIntents(s, tasks[k]))
        /\ channel' = Append(channel, TaskIntents(s, tasks[k])[tasks[k].sent + 1])
        /\ tasks' = [tasks EXCEPT ![k].sent = @ + 1]
        /\ UNCHANGED <<ui_vars, settings_vars, grid_vars, world_vars, frame, phase,
                       input, sys, last_finished>>

\* a task has walked its chunk: its sender clone is dropped
WorkerDone ==
    \E s \in Scans, k \in DOMAIN tasks :
        /\ ~crashed
        /\ sys[s] = "running"
        /\ ~tasks[k].done
        /\ tasks[k].sent = Len(TaskIntents(s, tasks[k]))
        /\ tasks' = [tasks EXCEPT ![k].done = TRUE]
        /\ UNCHANGED <<ui_vars, settings_vars, grid_vars, world_vars, frame, phase,
                       input, sys, channel, last_finished>>

\* a slip: the receiver yields the event sent last
DrainNewest ==
    \E s \in Scans :
        /\ ~crashed
        /\ sys[s] = "running"
        /\ channel # <<>>
        /\ events' = Append(events, channel[Len(channel)])
        /\ channel' = SubSeq(channel, 1, Len(channel) - 1)
        /\ drained' = drained + 1
        /\ UNCHANGED <<ui_vars, features, life_vars, build_vars, scan_order, grid_vars, creatures,
                       next_entity, commands, sim_state, scheduled, window, thread_num,
                       frame, phase, input, sys, tasks, last_finished>>

\* the receiver yields the next event and the system hands it to the EventWriter
Drain ==
    \E s \in Scans :
        /\ ~crashed
        /\ sys[s] = "running"
        /\ channel # <<>>
        /\ events' = Append(events, Head(channel))
        /\ channel' = Tail(channel)
        /\ drained' = drained + 1
        /\ UNCHANGED <<ui_vars, features, life_vars, build_vars, scan_order, grid_vars, creatures,
                       next_entity, commands, sim_state, scheduled, window, thread_num,
                       frame, phase, input, sys, tasks, last_finished>>

\* a slip: the receiver stops as soon as it finds the channel empty (try_iter)
ReturnWhenEmpty ==
    \E s \in Scans :
        /\ ~crashed
        /\ sys[s] = "running"
        /\ channel = <<>>
        /\ tasks' = <<>>
        /\ scan_order' = Append(scan_order, s)
        /\ drained' = 0
        /\ Finished(s)
        /\ UNCHANGED <<ui_vars, features, life_vars, build_vars, grid_vars, world_vars, frame,
                       phase, input, channel>>

\* every sender is gone and the channel is empty: the iteration ends, the
\* scope joins its tasks and the system returns
Return ==
    \E s \in Scans :
        /\ ~crashed
        /\ sys[s] = "running"
        /\ \A k \in DOMAIN tasks : tasks[k].done
        /\ channel = <<>>
        /\ tasks' = <<>>
        /\ scan_order' = Append(scan_order, s)
        /\ drained' = 0
        /\ Finished(s)
        /\ UNCHANGED <<ui_vars, features, life_vars, build_vars, grid_vars, world_vars, frame,
                       phase, input, channel>>

ScanNext ==
    \/ Dispatch
    \/ WorkerSend
    \/ WorkerDone
    \/ Drain
    \/ Return
    \/ ApplyForceEventSystem

\* a spawned task runs until it has finished, the receiver takes an event that
\* waits in the channel and returns once the channel is closed and empty, and
\* the stage runs apply_force_event_system once the scans are over
SpecScan ==
    /\ ScanInit
    /\ [][ScanNext]_vars
    /\ WF_vars(WorkerSend)
    /\ WF_vars(WorkerDone)
    /\ WF_vars(Drain)
    /\ WF_vars(Return)
    /\ WF_vars(ApplyForceEventSystem)

----------------------------------------------------------------------------
(* main.rs: the first program, with the species Boid and Chaser and a      *)
(* chase_system that turns the headings itself.                            *)

\* the factors main() inserts; chase is in quarters
MainFactors ==
    [Boid   |-> [vision |-> 50],
     Chaser |-> [vision |-> 70, chase |-> 20]]

\* Vec2::lerp(a, b, t) for t = factor * delta, where 20 * t divides evenly
Vec2Lerp(a, b, factor4, delta5) ==
    IF IsNaN(LerpScaled(a, b, factor4, delta5)) THEN NaN
    ELSE <<LerpScaled(a, b, factor4, delta5)[1] \div 20,
           LerpScaled(a, b, factor4, delta5)[2] \div 20>>

\* the entry of `targets` for a after the inner loop has visited bs: none
\* (<<>>), or a distance with an Option of a direction (<<>> is None)
RECURSIVE MainTarget(_, _, _, _)
MainTarget(cs, a, bs, target) ==
    IF bs = <<>> THEN target
    ELSE LET b == Head(bs)
             distance2 == Dist2(cs[a].pos, cs[b].pos)
             vision == MainFactors[cs[a].type].vision
             next ==
                 IF \/ a = b
                    \/ ~(cs[a].type = "Chaser" /\ cs[b].type = "Boid")
                    \/ ~(distance2 < vision * vision)
                 THEN target
                 ELSE IF target = <<>>
                      THEN <<[distance2 |-> distance2, chase_direction |-> <<>>]>>
                      ELSE IF distance2 < target[1].distance2
                           THEN <<[distance2 |-> distance2,
                                   chase_direction |-> <<Normalize(VSub(cs[b].pos, cs[a].pos))>>]>>
                           ELSE target
         IN MainTarget(cs, a, Tail(bs), next)

\* the chase the second loop of chase_system carries out for a, as an intent
MainChaseIntents(cs, a) ==
    LET target == MainTarget(cs, a, SetToSeq(DOMAIN cs), <<>>)
    IN IF target = <<>> \/ target[1].chase_direction = <<>> THEN <<>>
       ELSE <<ForceEvent(a, target[1].chase_direction[1], MainFactors.Chaser.chase)>>

RECURSIVE MainChaseAll(_, _)
MainChaseAll(cs, as) ==
    IF as = <<>> THEN <<>>
    ELSE MainChaseIntents(cs, Head(as)) \o MainChaseAll(cs, Tail(as))

\* the second loop: direction.0 = direction.0.lerp(chase_direction, chase * dt)
RECURSIVE MainApplyChase(_, _, _)
MainApplyChase(cs, intents, delta5) ==
    IF intents = <<>> THEN cs
    ELSE MainApplyChase(
             [cs EXCEPT ![Head(intents).entity].dir =
                  Vec2Lerp(@, Head(intents).force, Head(intents).factor, delta5)],
             Tail(intents), delta5)

\* where add_boids may have put a creature, on the line y = 0
MainXs == {-90, -60, -30, -10, 10, 30, 60, 90}

\* a Chaser in the middle, heading either way, and up to two Boids
MainWorlds ==
    {<<Creature(0, dx, "Chaser")>> : dx \in {-1, 1}}
    \cup {<<Creature(0, dx, "Chaser"), Creature(x, 1, "Boid")>> :
              dx \in {-1, 1}, x \in MainXs}
    \cup {<<Creature(0, dx, "Chaser"), Creature(x, 1, "Boid"), Creature(y, 1, "Boid")>> :
              dx \in {-1, 1}, x \in MainXs, y \in MainXs}

\* a frame of the first program in which chase_system has yet to run
MainInit ==
    /\ creatures \in MainWorlds
    /\ cache_grid = EmptyCacheGrid
    /\ next_entity = Len(creatures) + 1
    /\ indexed_pos = <<>>
    /\ nearby = NoCall
    /\ last_update = NoCall
    /\ crashed = FALSE
    /\ overflow_checks = FALSE
    /\ commands = <<>>
    /\ events = <<>>
    /\ sim_state = "Running"
    /\ scheduled = "None"
    /\ window = [width |-> 1600, height |-> 900]
    /\ thread_num = 1
    /\ frame = 1
    /\ phase = "frame"
    /\ input = [NoInput EXCEPT !.delta5 = 1]
    /\ sys = [s \in Systems |-> IF s = "chase" THEN "idle" ELSE "done"]
    /\ tasks = <<>>
    /\ channel = <<>>
    /\ last_finished = "wrap"
    /\ UiAtRest

\* chase_system (and the chase part of all_in_one_system): `events` keeps the
\* chases the second loop carried out
MainChaseSystem ==
    /\ phase = "frame"
    /\ sys["chase"] = "idle"
    /\ events' = MainChaseAll(creatures, SetToSeq(DOMAIN creatures))
    /\ creatures' = MainApplyChase(creatures, events', input.delta5)
    /\ Finished("chase")
    /\ UNCHANGED <<ui_vars, settings_vars, grid_vars, next_entity, commands, sim_state,
                   scheduled, window, thread_num, frame, phase, input, tasks, channel>>

MainNext == MainChaseSystem

SpecMain == MainInit /\ [][MainNext]_vars

----------------------------------------------------------------------------
(* The scans of both builds, for a species table that is read from the     *)
(* resource: the six systems BoidsPlugin::build chooses from by IS_WASM.   *)

\* the candidates of a's scan under a table
TableCandidates(table, cs, cg, a) ==
    GetNearbyEntities(cg, cs[a].pos, table[cs[a].type].vision)

\* parallel_scare_system, the body run for one creature a of a chunk
ParallelScareBody(table, cs, cg, a) ==
    LET factors    == table[cs[a].type]
        position_a == cs[a].pos
        feared == FilterSeq(TableCandidates(table, cs, cg, a),
                            {entity_b \in DOMAIN cs :
                                /\ entity_b # a
                                /\ cs[entity_b].type \in factors.scared_of
                                /\ Within(position_a, cs[entity_b].pos, factors.vision)})
    IN [k \in DOMAIN feared |->
            ForceEvent(a, Normalize(VSub(position_a, cs[feared[k]].pos)), factors.scare)]

\* scare_system, the closure run for one creature a
ScareBody(table, cs, cg, a) ==
    LET factors    == table[cs[a].type]
        position_a == cs[a].pos
        not_self == FilterSeq(TableCandidates(table, cs, cg, a),
                              {entity_b \in DOMAIN cs : entity_b # a})
        feared   == FilterSeq(not_self,
                              {entity_b \in DOMAIN cs :
                                  cs[entity_b].type \in factors.scared_of})
        near     == FilterSeq(feared,
                              {entity_b \in DOMAIN cs :
                                  Within(position_a, cs[entity_b].pos, factors.vision)})
    IN [k \in DOMAIN near |->
            ForceEvent(a, Normalize(VSub(position_a, cs[near[k]].pos)), factors.scare)]

\* parallel_chase_system, the body run for one creature a of a chunk
ParallelChaseBody(table, cs, cg, a) ==
    LET factors    == table[cs[a].type]
        position_a == cs[a].pos
        prey == FilterSeq(TableCandidates(table, cs, cg, a),
                          {entity_b \in DOMAIN cs :
                              /\ entity_b # a
                              /\ cs[entity_b].type \in factors.will_chase
                              /\ Within(position_a, cs[entity_b].pos, factors.vision)})
        closest_target == ClosestTarget(cs, position_a, prey, <<>>)
    IN IF closest_target = <<>> THEN <<>>
       ELSE <<ForceEvent(a, Normalize(VSub(closest_target[1], position_a)), factors.chase)>>

\* chase_system, the closure run for one creature a: the loop has no test
\* that sets the creature itself aside
ChaseBody(table, cs, cg, a) ==
    LET factors    == table[cs[a].type]
        position_a == cs[a].pos
        prey == FilterSeq(TableCandidates(table, cs, cg, a),
                          {entity_b \in DOMAIN cs :
                              /\ cs[entity_b].type \in factors.will_chase
                              /\ Within(position_a, cs[entity_b].pos, factors.vision)})
        closest_target == ClosestTarget(cs, position_a, prey, <<>>)
    IN IF closest_target = <<>> THEN <<>>
       ELSE <<ForceEvent(a, Normalize(VSub(closest_target[1], position_a)), factors.chase)>>

\* parallel_flocking_system, the body run for one creature a of a chunk
ParallelFlockingBody(table, cs, cg, a) ==
    LET factors  == table[cs[a].type]
        pa       == cs[a].pos
        same     == FilterSeq(TableCandidates(table, cs, cg, a),
                              {b \in DOMAIN cs : b # a /\ cs[b].type = cs[a].type})
        seen     == FilterSeq(same, {b \in DOMAIN cs : Within(pa, cs[b].pos, factors.vision)})
        close    == FilterSeq(same, {b \in DOMAIN cs : WithinHalf(pa, cs[b].pos, factors.vision)})
        touching == FilterSeq(same, {b \in DOMAIN cs : Within(pa, cs[b].pos, 2 * factors.size_x)})
        average_position       == VSum([k \in DOMAIN seen |-> cs[seen[k]].pos])
        average_direction      == VSum([k \in DOMAIN seen |-> cs[seen[k]].dir])
        average_close_position == VSum([k \in DOMAIN close |-> cs[close[k]].pos])
    IN [k \in DOMAIN touching |->
            ForceEvent(a, Normalize(VSub(pa, cs[touching[k]].pos)),
                       factors.collision_avoidance)]
       \o (IF Len(seen) > 0
           THEN <<ForceEvent(a, Normalize(VSub(average_position, VScale(Len(seen), pa))),
                             factors.cohesion),
                  ForceEvent(a, Normalize(average_direction), factors.alignment)>>
           ELSE <<>>)
       \o (IF Len(close) > 0
           THEN <<ForceEvent(a, Normalize(VSub(VScale(Len(close), pa), average_close_position)),
                             factors.separation)>>
           ELSE <<>>)

\* flocking_system, the closure run for one creature a
FlockingBody(table, cs, cg, a) ==
    LET factors    == table[cs[a].type]
        position_a == cs[a].pos
        others == FilterSeq(TableCandidates(table, cs, cg, a),
                            {entity_b \in DOMAIN cs : entity_b # a})
        kin    == FilterSeq(others,
                            {entity_b \in DOMAIN cs : cs[entity_b].type = cs[a].type})
        in_vision      == FilterSeq(kin, {entity_b \in DOMAIN cs :
                              Within(position_a, cs[entity_b].pos, factors.vision)})
        in_half_vision == FilterSeq(kin, {entity_b \in DOMAIN cs :
                              WithinHalf(position_a, cs[entity_b].pos, factors.vision)})
        in_touch       == FilterSeq(kin, {entity_b \in DOMAIN cs :
                              Within(position_a, cs[entity_b].pos, 2 * factors.size_x)})
        vision_count      == Len(in_vision)
        half_vision_count == Len(in_half_vision)
        average_position       == VSum([k \in DOMAIN in_vision |-> cs[in_vision[k]].pos])
        average_direction      == VSum([k \in DOMAIN in_vision |-> cs[in_vision[k]].dir])
        average_close_position ==
            VSum([k \in DOMAIN in_half_vision |-> cs[in_half_vision[k]].pos])
    IN [k \in DOMAIN in_touch |->
            ForceEvent(a, Normalize(VSub(position_a, cs[in_touch[k]].pos)),
                       factors.collision_avoidance)]
       \o (IF vision_count > 0
           THEN <<ForceEvent(a, Normalize(VSub(average_position,
                                               VScale(vision_count, position_a))),
                             factors.cohesion),
                  ForceEvent(a, Normalize(average_direction), factors.alignment)>>
           ELSE <<>>)
       \o (IF half_vision_count > 0
           THEN <<ForceEvent(a, Normalize(VSub(VScale(half_vision_count, position_a),
                                               average_close_position)),
                             factors.separation)>>
           ELSE <<>>)

\* the system registered for a scan in a build, run for one creature
SystemBody(wasm, scan, table, cs, cg, a) ==
    CASE scan = "flocking" -> IF wasm THEN FlockingBody(table, cs, cg, a)
                              ELSE ParallelFlockingBody(table, cs, cg, a)
      [] scan = "scare"    -> IF wasm THEN ScareBody(table, cs, cg, a)
                              ELSE ParallelScareBody(table, cs, cg, a)
      [] scan = "chase"    -> IF wasm THEN ChaseBody(table, cs, cg, a)
                              ELSE ParallelChaseBody(table, cs, cg, a)

\* the events of a system that visits the creatures of `walk` in turn
RECURSIVE SystemIntents(_, _, _, _, _, _)
SystemIntents(wasm, scan, table, cs, cg, walk) ==
    IF walk = <<>> THEN <<>>
    ELSE SystemBody(wasm, scan, table, cs, cg, Head(walk))
         \o SystemIntents(wasm, scan, table, cs, cg, Tail(walk))

\* species tables: BoidsPlugin::default; the same with C no longer chasing
\* anything; the same with B chasing every species, its own included
SpeciesTables ==
    { AllFactors,
      [AllFactors EXCEPT !.C.will_chase = {}],
      [AllFactors EXCEPT !.B.will_chase = {"A", "B", "C"}] }

\* a frame of either build, with the index brought up to date
SpeciesInit ==
    /\ \E world \in ScanWorlds :
          /\ creatures = ClearChanged(world)
          /\ cache_grid = CacheGridUpdateSystem(EmptyCacheGrid, world)
    /\ is_wasm \in BOOLEAN
    /\ all_factors \in SpeciesTables
    /\ next_entity = Len(creatures) + 1
    /\ indexed_pos = <<>>
    /\ nearby = NoCall
    /\ last_update = NoCall
    /\ crashed = FALSE
    /\ overflow_checks = FALSE
    /\ commands = <<>>
    /\ events = <<>>
    /\ sim_state = "Running"
    /\ scheduled = "None"
    /\ window = [width |-> 1280, height |-> 720]
    /\ thread_num \in 1..MaxThreads
    /\ frame = 1
    /\ phase = "frame"
    /\ input = [NoInput EXCEPT !.delta5 = 1]
    /\ sys = [s \in Systems |-> IF s \in Scans \cup {"apply"} THEN "idle" ELSE "done"]
    /\ tasks = <<>>
    /\ channel = <<>>
    /\ last_finished = "cache"
    /\ factor_info = <<>>
    /\ selected_creature_type = 0
    /\ creature_type_of = <<>>
    /\ ui_commands = {}
    /\ ui_input = [select |-> -1, click |-> "none"]
    /\ ui_ran = {}
    /\ ui_phase = "idle"
    /\ ui_panicked = FALSE
    /\ population_information = <<>>
    /\ features = AllFeatures
    /\ agents = <<>>
    /\ max_energy = <<>>
    /\ life_ran = {}
    /\ life_queue = {}
    /\ reproduced = {}
    /\ scan_order = <<>>
    /\ drained = 0

\* scare_system, chase_system or flocking_system runs from start to end
SingleThreadedScan ==
    \E s \in Scans :
        /\ is_wasm
        /\ CanStart(s)
        /\ events' = events \o SystemIntents(TRUE, s, all_factors, creatures, cache_grid,
                                              SetToSeq(DOMAIN creatures))
        /\ scan_order' = Append(scan_order, s)
        /\ Finished(s)
        /\ UNCHANGED <<ui_vars, features, life_vars, build_vars, drained, grid_vars,
                       creatures, next_entity, commands, sim_state, scheduled, window,
                       thread_num, frame, phase, input, tasks, channel>>

\* one of the parallel systems runs from start to end: chunks(0) panics,
\* otherwise each creature's events reach the queue in the order its task
\* sent them
ParallelScan ==
    \E s \in Scans :
        /\ ~is_wasm
        /\ CanStart(s)
        /\ IF Len(SetToSeq(DOMAIN creatures)) \div thread_num = 0
           THEN /\ crashed' = TRUE
                /\ UNCHANGED <<events, scan_order, sys, last_finished>>
           ELSE /\ events' = events \o SystemIntents(FALSE, s, all_factors, creatures,
                                                      cache_grid, SetToSeq(DOMAIN creatures))
                /\ scan_order' = Append(scan_order, s)
                /\ Finished(s)
                /\ UNCHANGED crashed
        /\ UNCHANGED <<ui_vars, features, life_vars, build_vars, drained, cache_grid,
                       index_history, creatures, next_entity, commands, sim_state,
                       scheduled, window, thread_num, frame, phase, input, tasks, channel>>

SpeciesNext ==
    \/ SingleThreadedScan
    \/ ParallelScan

SpecSpecies == SpeciesInit /\ [][SpeciesNext]_vars

----------------------------------------------------------------------------
(* The settings panel: species are CreatureType(0) .. CreatureType(n - 1),   *)
(* factors_system removes and adds species, statistics_system counts the  *)
(* creatures of each.                                                      *)

MaxSpecies == 3

UiEntities == 1..2

\* Factors as far as the panel renumbers it
DefaultFactors == [predator_of |-> {}]

\* a slip: the indices above the removed one are left as they are
RenumberedNot(i, selected_index) == i

\* where "Remove Selected" moves an index above the removed one
Renumbered(i, selected_index) == IF i > selected_index THEN i - 1 ELSE i

\* HashMap::insert
MapInsert(map, key, value) ==
    [i \in DOMAIN map \cup {key} |-> IF i = key THEN value ELSE map[i]]

\* the loop over the drained entries: the selected entry is skipped, the
\* others are inserted under their new index with predator_of renumbered
RECURSIVE ReinsertDrained(_, _, _)
ReinsertDrained(map, entries, selected_index) ==
    IF entries = <<>> THEN map
    ELSE LET creature_type == Head(entries)[1]
             factors == Head(entries)[2]
         IN IF creature_type = selected_index
            THEN ReinsertDrained(map, Tail(entries), selected_index)
            ELSE ReinsertDrained(
                    MapInsert(map, Renumbered(creature_type, selected_index),
                        [factors EXCEPT !.predator_of =
                            {Renumbered(prey, selected_index) :
                                prey \in factors.predator_of \ {selected_index}}]),
                    Tail(entries), selected_index)

\* the table after "Remove Selected"; drain() hands the entries over in an
\* order of the map's choosing, here by ascending key: every entry goes to a
\* key of its own, so the order does not show in the table
RemoveSelected(factors, selected_index) ==
    LET keys == SetToSeq(DOMAIN factors)
    IN ReinsertDrained(<<>>, [k \in DOMAIN keys |-> <<keys[k], factors[keys[k]]>>],
                       selected_index)

\* the creatures' components after "Remove Selected": those of the selected
\* species are only asked to be despawned
RetypeCreatures(types, selected_index) ==
    [e \in DOMAIN types |->
        IF types[e] = selected_index THEN types[e]
        ELSE Renumbered(types[e], selected_index)]

\* the table after "Add New"
AddNew(factors) ==
    [i \in DOMAIN factors \cup {Cardinality(DOMAIN factors)} |->
        IF i \in DOMAIN factors THEN factors[i] ELSE DefaultFactors]

Min(a, b) == IF a <= b THEN a ELSE b

\* statistics_system's fold: vec![0; len] with one increment per creature;
\* indexing past the end panics
StatisticsPanics(factors, types) ==
    \E e \in DOMAIN types : types[e] >= Cardinality(DOMAIN factors)

PopulationInformation(factors, types) ==
    [i \in DOMAIN factors |-> Cardinality({e \in DOMAIN types : types[e] = i})]

UiInit ==
    /\ cache_grid = EmptyCacheGrid
    /\ indexed_pos = <<>>
    /\ nearby = NoCall
    /\ last_update = NoCall
    /\ crashed = FALSE
    /\ overflow_checks = FALSE
    /\ WorldAtRest
    /\ factor_info = [i \in 0..1 |-> [predator_of |-> IF i = 1 THEN {0} ELSE {}]]
    /\ selected_creature_type = 0
    /\ creature_type_of \in [UiEntities -> 0..1]
    /\ ui_commands = {}
    /\ ui_input = [select |-> -1, click |-> "none"]
    /\ ui_ran = {}
    /\ ui_phase = "idle"
    /\ ui_panicked = FALSE
    /\ population_information = <<>>
    /\ features = AllFeatures
    /\ agents = <<>>
    /\ max_energy = <<>>
    /\ life_ran = {}
    /\ life_queue = {}
    /\ reproduced = {}
    /\ scan_order = <<>>
    /\ drained = 0
    /\ is_wasm = FALSE
    /\ all_factors = AllFactors

\* the frame's pointer input: a choice in the "Select" box or none (-1), and
\* at most one button
UiBeginFrame ==
    /\ ~ui_panicked
    /\ ui_phase = "idle"
    /\ \E select \in {-1} \cup DOMAIN factor_info, click \in {"none", "remove", "add"} :
        /\ click = "add" => Cardinality(DOMAIN factor_info) < MaxSpecies
        /\ ui_input' = [select |-> select, click |-> click]
    /\ ui_phase' = "frame"
    /\ ui_ran' = {}
    /\ UNCHANGED <<grid_vars, world_vars, frame_vars, settings_vars, factor_info,
                   selected_creature_type, creature_type_of, ui_commands,
                   ui_panicked, population_information>>

FactorsSystem ==
    /\ ~ui_panicked
    /\ ui_phase = "frame"
    /\ "factors" \notin ui_ran
    /\ LET selected == IF ui_input.select = -1 THEN selected_creature_type
                       ELSE ui_input.select
           len == Cardinality(DOMAIN factor_info)
       IN IF ui_input.click = "remove" /\ len > 1
          THEN /\ ui_commands' = ui_commands \cup
                     {e \in DOMAIN creature_type_of : creature_type_of[e] = selected}
               /\ creature_type_of' = RetypeCreatures(creature_type_of, selected)
               /\ factor_info' = RemoveSelected(factor_info, selected)
               /\ selected_creature_type' = Min(selected, len - 2)
          ELSE IF ui_input.click = "add"
          THEN /\ factor_info' = AddNew(factor_info)
               /\ selected_creature_type' = len
               /\ UNCHANGED <<creature_type_of, ui_commands>>
          ELSE /\ selected_creature_type' = selected
               /\ UNCHANGED <<factor_info, creature_type_of, ui_commands>>
    /\ ui_ran' = ui_ran \cup {"factors"}
    /\ UNCHANGED <<grid_vars, world_vars, frame_vars, settings_vars, ui_input, ui_phase,
                   ui_panicked, population_information>>

StatisticsSystem ==
    /\ ~ui_panicked
    /\ ui_phase = "frame"
    /\ "statistics" \notin ui_ran
    /\ IF StatisticsPanics(factor_info, creature_type_of)
       THEN /\ ui_panicked' = TRUE
            /\ UNCHANGED population_information
       ELSE /\ population_information' =
                  PopulationInformation(factor_info, creature_type_of)
            /\ UNCHANGED ui_panicked
    /\ ui_ran' = ui_ran \cup {"statistics"}
    /\ UNCHANGED <<grid_vars, world_vars, frame_vars, settings_vars, factor_info,
                   selected_creature_type, creature_type_of, ui_commands,
                   ui_input, ui_phase>>

\* the schedule's buffers are applied: the despawns take effect
UiEndFrame ==
    /\ ~ui_panicked
    /\ ui_phase = "frame"
    /\ ui_ran = {"factors", "statistics"}
    /\ creature_type_of' =
          [e \in DOMAIN creature_type_of \ ui_commands |-> creature_type_of[e]]
    /\ ui_commands' = {}
    /\ ui_phase' = "idle"
    /\ ui_input' = [select |-> -1, click |-> "none"]
    /\ ui_ran' = {}
    /\ UNCHANGED <<grid_vars, world_vars, frame_vars, settings_vars, factor_info,
                   selected_creature_type, ui_panicked, population_information>>

UiNext == UiBeginFrame \/ FactorsSystem \/ StatisticsSystem \/ UiEndFrame

SpecUi == UiInit /\ [][UiNext]_vars

\* tables as the sliders and the "Predator Of" boxes of the panel can make
\* them: each species with a speed of its own and with any one species, no
\* species or every species as prey
RemovalTables ==
    UNION { [0..(n - 1) ->
                UNION {[speed : {v}, predator_of : {{}, 0..(n - 1)} \cup {{j} : j \in 0..(n - 1)}]
                          : v \in 50..(50 + n - 1)}]
            : n \in 2..MaxSpecies }

RemovalInit ==
    /\ cache_grid = EmptyCacheGrid
    /\ indexed_pos = <<>>
    /\ nearby = NoCall
    /\ last_update = NoCall
    /\ crashed = FALSE
    /\ overflow_checks = FALSE
    /\ WorldAtRest
    /\ factor_info \in {t \in RemovalTables : \A i \in DOMAIN t : t[i].speed = 50 + i}
    /\ selected_creature_type = 0
    /\ creature_type_of \in {t \in [UiEntities -> DOMAIN factor_info] :
                                 t[2] = Cardinality(DOMAIN factor_info) - 1}
    /\ ui_commands = {}
    /\ ui_input = [select |-> -1, click |-> "none"]
    /\ ui_ran = {}
    /\ ui_phase = "idle"
    /\ ui_panicked = FALSE
    /\ population_information = <<>>
    /\ features = AllFeatures
    /\ agents = <<>>
    /\ max_energy = <<>>
    /\ life_ran = {}
    /\ life_queue = {}
    /\ reproduced = {}
    /\ scan_order = <<>>
    /\ drained = 0
    /\ is_wasm = FALSE
    /\ all_factors = AllFactors

\* one frame of the panel with the "Remove Selected" button or without it
RemovalBeginFrame ==
    /\ UiBeginFrame
    /\ ui_input'.click # "add"

RemovalNext == RemovalBeginFrame \/ FactorsSystem \/ StatisticsSystem \/ UiEndFrame

SpecRemoval == RemovalInit /\ [][RemovalNext]_vars

----------------------------------------------------------------------------
(* Feature flags.  settings_system sets the Features checkboxes; each scan *)
(* sends its intents only while its checkbox is ticked.                    *)

\* the checkbox that governs a scan
FeatureOf(s) ==
    CASE s = "flocking" -> "flocking"
      [] s = "chase"    -> "chasing"
      [] s = "scare"    -> "running"

\* a slip: a predator chases only while prey is allowed to run
GatedIntentsChaseNeedsRunning(f, s, cs, cg) ==
    IF f[FeatureOf(s)] /\ (s = "chase" => f["running"])
    THEN ChunkIntents(s, cs, cg, SetToSeq(DOMAIN cs))
    ELSE <<>>

\* what a scan sends in one tick under the flags f
GatedIntents(f, s, cs, cg) ==
    IF f[FeatureOf(s)]
    THEN ChunkIntents(s, cs, cg, SetToSeq(DOMAIN cs))
    ELSE <<>>

\* populations in which each kind of intent arises
FeatureWorlds ==
    InitialWorlds \cup
    { <<Creature(0, 1, "A"), Creature(10, -1, "A"), Creature(-10, 1, "B")>> }

FeaturesInit ==
    /\ creatures \in FeatureWorlds
    /\ cache_grid = CacheGridUpdateSystem(EmptyCacheGrid, creatures)
    /\ features \in [{"chasing", "running", "flocking"} -> BOOLEAN]
    /\ agents = <<>>
    /\ max_energy = <<>>
    /\ life_ran = {}
    /\ life_queue = {}
    /\ reproduced = {}
    /\ scan_order = <<>>
    /\ drained = 0
    /\ is_wasm = FALSE
    /\ all_factors = AllFactors
    /\ indexed_pos = <<>>
    /\ nearby = NoCall
    /\ last_update = NoCall
    /\ crashed = FALSE
    /\ overflow_checks = FALSE
    /\ next_entity = Len(creatures) + 1
    /\ commands = <<>>
    /\ events = <<>>
    /\ sim_state = "Running"
    /\ scheduled = "None"
    /\ window = [width |-> 1280, height |-> 720]
    /\ thread_num = 1
    /\ frame = 0
    /\ phase = "idle"
    /\ input = NoInput
    /\ sys = AllIdle
    /\ tasks = <<>>
    /\ channel = <<>>
    /\ last_finished = "none"
    /\ factor_info = <<>>
    /\ selected_creature_type = 0
    /\ creature_type_of = <<>>
    /\ ui_commands = {}
    /\ ui_input = [select |-> -1, click |-> "none"]
    /\ ui_ran = {}
    /\ ui_phase = "idle"
    /\ ui_panicked = FALSE
    /\ population_information = <<>>

\* settings_system: one checkbox of the Features section is clicked
SettingsSystem ==
    /\ \E f \in {"chasing", "running", "flocking"} :
          features' = [features EXCEPT ![f] = ~@]
    /\ UNCHANGED <<grid_vars, world_vars, frame_vars, ui_vars, life_vars, pool_vars, build_vars>>

\* one of the tick's scans runs under the flags
FeatureScan ==
    \E s \in Scans :
        /\ sys[s] = "idle"
        /\ events' = events \o GatedIntents(features, s, creatures, cache_grid)
        /\ sys' = [sys EXCEPT ![s] = "done"]
        /\ last_finished' = s
        /\ UNCHANGED <<grid_vars, creatures, next_entity, commands, sim_state,
                       scheduled, window, thread_num, frame, phase, input, tasks,
                       channel, ui_vars, settings_vars>>

\* the tick's events have been read
FeatureEndTick ==
    /\ \A s \in Scans : sys[s] = "done"
    /\ events' = <<>>
    /\ sys' = AllIdle
    /\ last_finished' = "end"
    /\ UNCHANGED <<grid_vars, creatures, next_entity, commands, sim_state,
                   scheduled, window, thread_num, frame, phase, input, tasks,
                   channel, ui_vars, settings_vars>>

FeaturesNext == SettingsSystem \/ FeatureScan \/ FeatureEndTick

SpecFeatures == FeaturesInit /\ [][FeaturesNext]_vars

----------------------------------------------------------------------------
(* Kill and spawn clicks on the whole plane: one click, then the end of   *)
(* the stage, where its Commands are applied.                             *)

\* one creature in the corner of the box a click at the origin cuts out, one
\* beside the cursor; one creature alone
CommandWorlds ==
    { <<[pos |-> <<80, 80>>, dir |-> <<1, 0>>, type |-> "A", changed |-> FALSE],
        [pos |-> <<60, 0>>, dir |-> <<0, 1>>, type |-> "B", changed |-> FALSE]>>,
      <<[pos |-> <<0, 120>>, dir |-> <<-1, 0>>, type |-> "C", changed |-> FALSE]>> }

CommandCursors == {<<0, 0>>, <<0, 30>>}

\* KillProperties as the panel may have set it
KillPropertiesChoices ==
    {KillPropertiesDefault, [radius |-> 100, creature_types |-> {"B", "C"}]}

\* SpawnProperties as the panel may have set it
SpawnPropertiesChoices ==
    {[amount |-> n, radius |-> 10, creature_type |-> t] : n \in 0..2, t \in {"A", "B"}}

\* values of rng.gen_range(min..=max) - cursor, on either axis
RangeDraws == {0, 10}

\* values of (rng.gen() * 2 - 1, rng.gen() * 2 - 1), the zero vector aside
HeadingDraws == {<<-1, 0>>, <<0, -1>>}

\* spawn_creature_randomly around the cursor for one draw of the generator
SpawnCreatureRandomly(cursor, spawn_properties, draw) ==
    SpawnCreature(<<cursor[1] + draw.x, cursor[2] + draw.y>>,
                  Normalize(draw.direction_vector),
                  spawn_properties.creature_type)

CommandsInit ==
    /\ creatures \in CommandWorlds
    /\ next_entity = Len(creatures) + 1
    /\ cache_grid = EmptyCacheGrid
    /\ indexed_pos = <<>>
    /\ nearby = NoCall
    /\ last_update = NoCall
    /\ crashed = FALSE
    /\ overflow_checks = FALSE
    /\ commands = <<>>
    /\ events = <<>>
    /\ sim_state = "Running"
    /\ scheduled = "None"
    /\ window = [width |-> 1280, height |-> 720]
    /\ thread_num = 1
    /\ frame = 0
    /\ phase = "idle"
    /\ input = NoInput
    /\ sys = AllIdle
    /\ tasks = <<>>
    /\ channel = <<>>
    /\ last_finished = "none"
    /\ UiAtRest

\* kill_system on a Ctrl-click
KillClick ==
    /\ phase = "idle"
    /\ \E cursor \in CommandCursors, kill_properties \in KillPropertiesChoices :
        /\ input' = [key_p |-> FALSE, click |-> "kill", cursor |-> cursor,
                     delta5 |-> 0, kill_properties |-> kill_properties]
        /\ commands' = KillSystem(creatures, cursor, kill_properties)
    /\ phase' = "frame"
    /\ last_finished' = "kill"
    /\ UNCHANGED <<grid_vars, creatures, next_entity, events, sim_state, scheduled,
                   window, thread_num, frame, sys, tasks, channel, ui_vars,
                   settings_vars>>

\* spawn_system on a Shift-click: `amount` calls of spawn_creature_randomly
SpawnClick ==
    /\ phase = "idle"
    /\ \E cursor \in CommandCursors, spawn_properties \in SpawnPropertiesChoices :
        /\ next_entity + spawn_properties.amount - 1 <= MaxCreatures
        /\ input' = [key_p |-> FALSE, click |-> "spawn", cursor |-> cursor,
                     delta5 |-> 0, spawn_properties |-> spawn_properties]
        /\ \E draws \in [1..spawn_properties.amount ->
                           [x : RangeDraws, y : RangeDraws,
                            direction_vector : HeadingDraws]] :
              commands' = [k \in 1..spawn_properties.amount |->
                              SpawnCreatureRandomly(cursor, spawn_properties, draws[k])]
    /\ phase' = "frame"
    /\ last_finished' = "spawn"
    /\ UNCHANGED <<grid_vars, creatures, next_entity, events, sim_state, scheduled,
                   window, thread_num, frame, sys, tasks, channel, ui_vars,
                   settings_vars>>

\* the stage ends and the click's Commands are applied
CommandsApply ==
    /\ phase = "frame"
    /\ creatures' = ApplyCommands(creatures, next_entity, commands).creatures
    /\ next_entity' = ApplyCommands(creatures, next_entity, commands).next_entity
    /\ commands' = <<>>
    /\ phase' = "idle"
    /\ last_finished' = "end"
    /\ UNCHANGED <<grid_vars, events, sim_state, scheduled, window, thread_num,
                   frame, input, sys, tasks, channel, ui_vars, settings_vars>>

CommandsNext == KillClick \/ SpawnClick \/ CommandsApply

SpecCommands == CommandsInit /\ [][CommandsNext]_vars

----------------------------------------------------------------------------
(* The wrap step on its own, over the windows the program can have and    *)
(* positions on, next to and beyond each border.                           *)

\* one coordinate of main.rs border_system, for a window extent that is even
BorderCoord(c, extent) ==
    IF 2 * c > extent THEN -(extent \div 2)
    ELSE IF 2 * c < -extent THEN extent \div 2
    ELSE c

\* main.rs border_system
BorderSystem(cs, win) ==
    [e \in DOMAIN cs |->
        [cs[e] EXCEPT
            !.pos = IF IsNaN(@) THEN NaN
                    ELSE <<BorderCoord(@[1], win.width), BorderCoord(@[2], win.height)>>,
            !.changed = @ \/ (~IsNaN(cs[e].pos) /\
                                  \/ BorderCoord(cs[e].pos[1], win.width) # cs[e].pos[1]
                                  \/ BorderCoord(cs[e].pos[2], win.height) # cs[e].pos[2])]]

\* the smallest window the operating system gives, the smallest the panel's
\* Width and Height buttons set, and the windows at start-up of the two builds
WrapWindows ==
    { [width |-> 180, height |-> 120], [width |-> 500, height |-> 500],
      [width |-> 1280, height |-> 720], [width |-> 1600, height |-> 900] }

\* coordinates beyond, on, one inside and well inside the borders
WrapCoords(extent) ==
    { -(extent \div 2) - 70, -(extent \div 2), -(extent \div 2) + 1, 0,
      (extent \div 2) - 1, extent \div 2, (extent \div 2) + 70 }

WrapInit ==
    /\ window \in WrapWindows
    /\ creatures \in
          { <<[pos |-> p, dir |-> <<1, 0>>, type |-> "A", changed |-> FALSE]>> :
               p \in {NaN} \cup (WrapCoords(window.width) \X WrapCoords(window.height)) }
    /\ next_entity = 2
    /\ cache_grid = EmptyCacheGrid
    /\ indexed_pos = <<>>
    /\ nearby = NoCall
    /\ last_update = NoCall
    /\ crashed = FALSE
    /\ overflow_checks = FALSE
    /\ commands = <<>>
    /\ events = <<>>
    /\ sim_state = "Running"
    /\ scheduled = "None"
    /\ thread_num = 1
    /\ frame = 0
    /\ phase = "idle"
    /\ input = NoInput
    /\ sys = AllIdle
    /\ tasks = <<>>
    /\ channel = <<>>
    /\ last_finished = "none"
    /\ UiAtRest

\* wrap_borders_system, in a frame and in the frame after it
WrapBordersPass ==
    /\ frame < 2
    /\ last_finished \in {"none", "wrap"}
    /\ creatures' = WrapBordersSystem(creatures, window)
    /\ frame' = frame + 1
    /\ last_finished' = "wrap"
    /\ UNCHANGED <<grid_vars, next_entity, commands, events, sim_state, scheduled, window,
                   thread_num, phase, input, sys, tasks, channel, ui_vars, settings_vars>>

\* main.rs border_system, in a frame and in the frame after it
BorderPass ==
    /\ frame < 2
    /\ last_finished \in {"none", "border"}
    /\ creatures' = BorderSystem(creatures, window)
    /\ frame' = frame + 1
    /\ last_finished' = "border"
    /\ UNCHANGED <<grid_vars, next_entity, commands, events, sim_state, scheduled, window,
                   thread_num, phase, input, sys, tasks, channel, ui_vars, settings_vars>>

WrapNext == WrapBordersPass \/ BorderPass

SpecWrap == WrapInit /\ [][WrapNext]_vars

----------------------------------------------------------------------------
(* Frames with several clicks.  Input<KeyCode> holds one state of the      *)
(* keys for the whole frame; each system goes through every press of the  *)
(* left button that the frame delivered.                                   *)

\* presses of the left button delivered in one frame
MaxClicks == 2

\* the frame's clicks arrive
ClicksBegin ==
    /\ phase = "idle"
    /\ \E cursor \in CommandCursors, presses \in 1..MaxClicks,
          l_control \in BOOLEAN, l_shift \in BOOLEAN :
        /\ next_entity + (IF l_shift THEN presses * SpawnPropertiesOne.amount ELSE 0) - 1
              <= MaxCreatures
        /\ input' = [key_p |-> FALSE, click |-> "many", cursor |-> cursor, delta5 |-> 0,
                     presses |-> presses, l_control |-> l_control, l_shift |-> l_shift]
    /\ sys' = [s \in Systems |-> IF s \in {"kill", "spawn"} THEN "idle" ELSE "done"]
    /\ phase' = "frame"
    /\ last_finished' = "begin"
    /\ UNCHANGED <<grid_vars, world_vars, frame, tasks, channel, ui_vars, settings_vars>>

\* kill_system: the despawn commands of `presses` clicks with LControl held
RECURSIVE KillCommands(_, _, _, _)
KillCommands(cs, cursor, kill_properties, presses) ==
    IF presses = 0 THEN <<>>
    ELSE KillSystem(cs, cursor, kill_properties)
         \o KillCommands(cs, cursor, kill_properties, presses - 1)

\* a slip: kill_system despawns through the World, on the spot
KillSystemAtOnce ==
    /\ CanStart("kill")
    /\ creatures' = ApplyCommands(creatures, next_entity,
                        KillCommands(creatures, input.cursor, KillPropertiesDefault,
                                     IF input.l_control THEN input.presses ELSE 0)).creatures
    /\ Finished("kill")
    /\ UNCHANGED <<grid_vars, next_entity, events, commands, sim_state, scheduled, window,
                   thread_num, frame, phase, input, tasks, channel, ui_vars, settings_vars>>

\* kill_system
KillSystemPass ==
    /\ CanStart("kill")
    /\ commands' = commands \o
            KillCommands(creatures, input.cursor, KillPropertiesDefault,
                         IF input.l_control THEN input.presses ELSE 0)
    /\ Finished("kill")
    /\ UNCHANGED <<grid_vars, creatures, next_entity, events, sim_state, scheduled, window,
                   thread_num, frame, phase, input, tasks, channel, ui_vars, settings_vars>>

\* spawn_system: `amount` calls of spawn_creature_randomly for each click with LShift held
SpawnSystemPass ==
    /\ CanStart("spawn")
    /\ \E draws \in [1..(IF input.l_shift THEN input.presses * SpawnPropertiesOne.amount
                                            ELSE 0) ->
                       [x : RangeDraws, y : RangeDraws, direction_vector : HeadingDraws]] :
          commands' = commands \o
              [k \in DOMAIN draws |->
                  SpawnCreatureRandomly(input.cursor, SpawnPropertiesOne, draws[k])]
    /\ Finished("spawn")
    /\ UNCHANGED <<grid_vars, creatures, next_entity, events, sim_state, scheduled, window,
                   thread_num, frame, phase, input, tasks, channel, ui_vars, settings_vars>>

\* the stage ends and the Commands of both systems are applied
ClicksEnd ==
    /\ phase = "frame"
    /\ sys["kill"] = "done"
    /\ sys["spawn"] = "done"
    /\ creatures' = ApplyCommands(creatures, next_entity, commands).creatures
    /\ next_entity' = ApplyCommands(creatures, next_entity, commands).next_entity
    /\ commands' = <<>>
    /\ sys' = AllIdle
    /\ phase' = "idle"
    /\ last_finished' = "end"
    /\ UNCHANGED <<grid_vars, events, sim_state, scheduled, window, thread_num,
                   frame, input, tasks, channel, ui_vars, settings_vars>>

ClicksNext == ClicksBegin \/ KillSystemPass \/ SpawnSystemPass \/ ClicksEnd

SpecClicks == CommandsInit /\ [][ClicksNext]_vars

----------------------------------------------------------------------------
(* Lifecycle: energy, predation and reproduction.  An agent is             *)
(* [pos, type, energy, fertility_timer, alive] on a line; a removed agent  *)
(* leaves a tombstone.  A tick runs the three passes once each, in any     *)
(* order, and ends by removing the agents asked to be despawned or out of  *)
(* energy and adding the offspring.  Time is counted in ticks.             *)

\* per species: size, fertility cooldown and the species it hunts
LifeFactors ==
    [t \in 0..2 |->
        [size |-> 5, cooldown |-> 2,
         predator_of |-> CASE t = 0 -> {1, 2} [] t = 1 -> {} [] t = 2 -> {0}]]

\* energy lost per tick, gained per kill, paid per offspring
LifeRules == [drain |-> 50, reward |-> 30, cost |-> 20]

\* the ends of the "Max Energy" slider used here
MaxEnergyChoices == {20, 100}

Tombstone ==
    [pos |-> 0, type |-> 0, energy |-> 0, fertility_timer |-> 0, alive |-> FALSE]

Agent(pos, type, energy, fertility_timer) ==
    [pos |-> pos, type |-> type, energy |-> energy,
     fertility_timer |-> fertility_timer, alive |-> TRUE]

Live(ag) == {e \in DOMAIN ag : ag[e].alive}

\* a and b are within size(a) + size(b)
InContact(ag, a, b) ==
    Abs(ag[a].pos - ag[b].pos) <= LifeFactors[ag[a].type].size + LifeFactors[ag[b].type].size

Preys(ag, a, b) == ag[b].type \in LifeFactors[ag[a].type].predator_of

\* a slip: with equal energies each of two mutual predators defeats the other
DefeatsOnTie(ag, a, b) ==
    /\ a # b
    /\ InContact(ag, a, b)
    /\ Preys(ag, a, b)
    /\ Preys(ag, b, a) => ag[a].energy >= ag[b].energy

\* a wins the encounter with b
Defeats(ag, a, b) ==
    /\ a # b
    /\ InContact(ag, a, b)
    /\ Preys(ag, a, b)
    /\ Preys(ag, b, a) => ag[a].energy > ag[b].energy

Losers(ag) == {b \in Live(ag) : \E a \in Live(ag) : Defeats(ag, a, b)}

\* the predation-kill pass: each winner gains the reward for each agent it defeats
PredationKill(ag) ==
    [e \in DOMAIN ag |->
        IF ag[e].alive
        THEN [ag[e] EXCEPT !.energy =
                 @ + LifeRules.reward * Cardinality({b \in Live(ag) : Defeats(ag, e, b)})]
        ELSE ag[e]]

\* the energy-drain pass
EnergyDrain(ag) ==
    [e \in DOMAIN ag |->
        IF ag[e].alive THEN [ag[e] EXCEPT !.energy = @ - LifeRules.drain] ELSE ag[e]]

\* the same-species neighbours of a within 2 * size that have not reproduced
Partners(ag, a, done) ==
    {b \in Live(ag) \ done :
        /\ b # a
        /\ ag[b].type = ag[a].type
        /\ Abs(ag[a].pos - ag[b].pos) <= 2 * LifeFactors[ag[a].type].size}

\* a slip: an agent that has reproduced may serve again as a partner
RECURSIVE PairUpReusing(_, _, _, _)
PairUpReusing(ag, todo, done, parents) ==
    IF todo = <<>> THEN [done |-> done, parents |-> parents]
    ELSE LET a == Head(todo)
         IN IF a \notin done /\ ag[a].fertility_timer <= 0 /\ Partners(ag, a, {}) # {}
            THEN PairUpReusing(ag, Tail(todo),
                     done \cup {a, CHOOSE b \in Partners(ag, a, {}) :
                                      \A c \in Partners(ag, a, {}) : b <= c},
                     Append(parents, a))
            ELSE PairUpReusing(ag, Tail(todo), done, parents)

\* the reproduction pass walks the agents: one whose timer has run out takes the
\* first neighbour that has not reproduced, and both count as having reproduced
RECURSIVE PairUp(_, _, _, _)
PairUp(ag, todo, done, parents) ==
    IF todo = <<>> THEN [done |-> done, parents |-> parents]
    ELSE LET a == Head(todo)
         IN IF a \notin done /\ ag[a].fertility_timer <= 0 /\ Partners(ag, a, done) # {}
            THEN PairUp(ag, Tail(todo),
                     done \cup {a, CHOOSE b \in Partners(ag, a, done) :
                                      \A c \in Partners(ag, a, done) : b <= c},
                     Append(parents, a))
            ELSE PairUp(ag, Tail(todo), done, parents)

\* the timers and energies after the pass: cooldown for those that reproduced,
\* one tick less (not below 0) for the others, the cost for each parent
AfterReproduction(ag, done, parents) ==
    [e \in DOMAIN ag |->
        IF ~ag[e].alive THEN ag[e]
        ELSE [ag[e] EXCEPT
                 !.fertility_timer =
                     IF e \in done THEN LifeFactors[ag[e].type].cooldown
                     ELSE IF @ - 1 < 0 THEN 0 ELSE @ - 1,
                 !.energy = IF e \in Range(parents) THEN @ - LifeRules.cost ELSE @]]

\* the offspring of a parent: beside it, with full energy and a full cooldown
Offspring(ag, maxima, a) ==
    Agent(ag[a].pos, ag[a].type, maxima[ag[a].type], LifeFactors[ag[a].type].cooldown)

\* the end of the tick: the losers and the agents out of energy are removed,
\* the offspring are added
EndOfTick(ag, queue) ==
    [e \in 1..(Len(ag) + Len(queue.spawn)) |->
        IF e > Len(ag) THEN queue.spawn[e - Len(ag)]
        ELSE IF e \in queue.despawn \/ ag[e].energy <= 0 THEN Tombstone
        ELSE ag[e]]

\* populations in the middle of a run: a hunter beside its prey, two species
\* that hunt each other (with more, less and equal energy), three of one kind
\* that are ready to reproduce, a pair that is ready and one that is alone
LifeWorlds ==
    {<<Agent(0, 0, 100, 2), Agent(8, 1, 100, 2)>>,
     <<Agent(0, 0, 80, 1), Agent(6, 2, 60, 0)>>,
     <<Agent(0, 0, 60, 0), Agent(6, 2, 80, 1)>>,
     <<Agent(0, 0, 60, 0), Agent(6, 2, 60, 0)>>,
     <<Agent(0, 1, 60, 0), Agent(7, 1, 60, 0), Agent(9, 1, 60, 0)>>,
     <<Agent(0, 1, 60, 0), Agent(7, 1, 60, 0), Agent(40, 1, 80, 1)>>}

NoLifeQueue == [despawn |-> {}, spawn |-> <<>>]

LifePasses == {"drain", "kill", "reproduce"}

LifeInit ==
    /\ agents \in LifeWorlds
    /\ max_energy = [t \in 0..2 |-> 100]
    /\ life_ran = {}
    /\ life_queue = NoLifeQueue
    /\ reproduced = {}
    /\ scan_order = <<>>
    /\ drained = 0
    /\ is_wasm = FALSE
    /\ all_factors = AllFactors
    /\ features = AllFeatures
    /\ cache_grid = EmptyCacheGrid
    /\ indexed_pos = <<>>
    /\ nearby = NoCall
    /\ last_update = NoCall
    /\ crashed = FALSE
    /\ overflow_checks = FALSE
    /\ WorldAtRest
    /\ factor_info = <<>>
    /\ selected_creature_type = 0
    /\ creature_type_of = <<>>
    /\ ui_commands = {}
    /\ ui_input = [select |-> -1, click |-> "none"]
    /\ ui_ran = {}
    /\ ui_phase = "idle"
    /\ ui_panicked = FALSE
    /\ population_information = <<>>

\* the "Max Energy" slider of the selected species, moved between two ticks
MaxEnergySlider ==
    /\ life_ran = {}
    /\ \E t \in DOMAIN max_energy, v \in MaxEnergyChoices :
          /\ max_energy[t] # v
          /\ max_energy' = [max_energy EXCEPT ![t] = v]
    /\ UNCHANGED <<grid_vars, world_vars, frame_vars, ui_vars, features, pool_vars, build_vars,
                   agents, life_ran, life_queue, reproduced>>

EnergyDrainPass ==
    /\ "drain" \notin life_ran
    /\ Live(agents) # {}
    /\ agents' = EnergyDrain(agents)
    /\ life_ran' = life_ran \cup {"drain"}
    /\ UNCHANGED <<grid_vars, world_vars, frame_vars, ui_vars, features, pool_vars, build_vars,
                   max_energy, life_queue, reproduced>>

PredationKillPass ==
    /\ "kill" \notin life_ran
    /\ Live(agents) # {}
    /\ agents' = PredationKill(agents)
    /\ life_queue' = [life_queue EXCEPT !.despawn = @ \cup Losers(agents)]
    /\ life_ran' = life_ran \cup {"kill"}
    /\ UNCHANGED <<grid_vars, world_vars, frame_vars, ui_vars, features, pool_vars, build_vars,
                   max_energy, reproduced>>

ReproductionPass ==
    /\ "reproduce" \notin life_ran
    /\ Live(agents) # {}
    /\ LET paired == PairUp(agents, SetToSeq(Live(agents)), {}, <<>>)
       IN /\ reproduced' = paired.done
          /\ agents' = AfterReproduction(agents, paired.done, paired.parents)
          /\ life_queue' =
                 [life_queue EXCEPT !.spawn =
                     @ \o [i \in 1..Len(paired.parents) |->
                              Offspring(agents, max_energy, paired.parents[i])]]
    /\ life_ran' = life_ran \cup {"reproduce"}
    /\ UNCHANGED <<grid_vars, world_vars, frame_vars, ui_vars, features, pool_vars, build_vars, max_energy>>

LifeEndTick ==
    /\ life_ran = LifePasses
    /\ agents' = EndOfTick(agents, life_queue)
    /\ life_queue' = NoLifeQueue
    /\ reproduced' = {}
    /\ life_ran' = {}
    /\ UNCHANGED <<grid_vars, world_vars, frame_vars, ui_vars, features, pool_vars, build_vars, max_energy>>

LifeNext ==
    \/ MaxEnergySlider
    \/ EnergyDrainPass
    \/ PredationKillPass
    \/ ReproductionPass
    \/ LifeEndTick

SpecLife == LifeInit /\ [][LifeNext]_vars

----------------------------------------------------------------------------
(* The index driven directly: any sequence of update_entity calls and     *)
(* queries.                                                                *)

Entities == 1..MaxEntities

\* coordinates around the origin, on and beside cell borders, and far out
GridXs == {-25, -1, 20, 2550}
GridYs == {-20, 0, 1400}
GridPositions == {<<x, y>> : x \in GridXs, y \in GridYs}
GridQueryPoints == {<<-1, -20>>, <<20, 0>>, <<2550, 0>>}
GridRadii == {0, 30, 1500}

GridInit ==
    /\ cache_grid = EmptyCacheGrid
    /\ indexed_pos = <<>>
    /\ nearby = NoCall
    /\ last_update = NoCall
    /\ crashed = FALSE
    /\ overflow_checks \in BOOLEAN
    /\ WorldAtRest
    /\ UiAtRest

\* update_entity(e, pos); the history notes whether the call repeats the one
\* before it and whether it takes the entity out of another cell
GridUpdate ==
    /\ ~crashed
    /\ nearby = NoCall
    /\ \E e \in Entities, pos \in GridPositions :
        /\ cache_grid' = UpdateEntity(cache_grid, e, pos)
        /\ indexed_pos' = [x \in DOMAIN indexed_pos \cup {e} |->
                              IF x = e THEN pos ELSE indexed_pos[x]]
        /\ last_update' =
              [called |-> TRUE, entity |-> e, pos |-> pos,
               repeat |-> /\ last_update.called
                          /\ last_update.entity = e
                          /\ last_update.pos = pos,
               moved  |-> /\ e \in DOMAIN cache_grid.associations
                          /\ cache_grid.associations[e] # CellOf(pos)]
    /\ UNCHANGED <<ui_vars, settings_vars, nearby, crashed, overflow_checks, world_vars, frame_vars>>

\* get_nearby_entities(p, r); with overflow checks the additions may panic
GridQuery ==
    /\ ~crashed
    /\ nearby = NoCall
    /\ \E p \in GridQueryPoints, r \in GridRadii :
        IF overflow_checks /\ QueryOverflows(p, r)
        THEN /\ crashed' = TRUE
             /\ nearby' = [called |-> TRUE, position |-> p, radius |-> r,
                           result |-> <<>>]
        ELSE /\ nearby' = [called |-> TRUE, position |-> p, radius |-> r,
                           result |-> GetNearbyEntities(cache_grid, p, r)]
             /\ UNCHANGED crashed
    /\ UNCHANGED <<ui_vars, settings_vars, cache_grid, indexed_pos, last_update, overflow_checks,
                   world_vars, frame_vars>>

\* the caller drops the returned Vec
GridReturn ==
    /\ ~crashed
    /\ nearby # NoCall
    /\ nearby' = NoCall
    /\ UNCHANGED <<ui_vars, settings_vars, cache_grid, indexed_pos, last_update, crashed, overflow_checks,
                   world_vars, frame_vars>>

GridNext == GridUpdate \/ GridQuery \/ GridReturn

SpecGrid == GridInit /\ [][GridNext]_vars

----------------------------------------------------------------------------
(* Claims about the index *)

\* C1: whatever update_entity calls came before, and whatever the query point and
\* radius, get_nearby_entities returns every indexed entity whose indexed
\* position lies within the radius of the point.
C1_NoFalseNegatives ==
    (nearby.called /\ ~crashed) =>
        \A e \in DOMAIN indexed_pos :
            Dist2(indexed_pos[e], nearby.position) <= nearby.radius * nearby.radius
                => e \in Range(nearby.result)

\* C2: every associated entity is in exactly one cell, the cell its association
\* names; every entity in a cell is associated; no cell is empty.
C2_IndexConsistent ==
    LET grid == cache_grid.grid
        associations == cache_grid.associations
    IN /\ \A e \in DOMAIN associations :
            /\ associations[e] \in DOMAIN grid
            /\ \A c \in DOMAIN grid : e \in grid[c] <=> c = associations[e]
       /\ \A c \in DOMAIN grid :
            /\ grid[c] # {}
            /\ grid[c] \subseteq DOMAIN associations

\* an entity has just been moved out of a cell, and another entity is indexed too
C2_Witness ==
    /\ last_update.called
    /\ last_update.moved
    /\ Cardinality(DOMAIN cache_grid.associations) >= 2
    /\ Cardinality(DOMAIN cache_grid.grid) >= 2

\* C3: a call of update_entity that repeats the entity and position of the call
\* before it leaves grid and associations as that call left them.
C3_UpdateIdempotent ==
    [][(last_update'.called /\ last_update'.repeat) => cache_grid' = cache_grid]_vars

\* the repeated call has been made on an entity that the first call moved
C3_Witness ==
    /\ last_update.called
    /\ last_update.repeat
    /\ Cardinality(DOMAIN cache_grid.associations) >= 2

----------------------------------------------------------------------------
(* Claims about the frame *)

\* C4: when a frame has ended, the index holds no association and no cell
\* entry for an entity that is no longer alive.
C4_NoGhostEntries ==
    last_finished = "end" =>
        /\ DOMAIN cache_grid.associations \subseteq DOMAIN creatures
        /\ \A c \in DOMAIN cache_grid.grid : cache_grid.grid[c] \subseteq DOMAIN creatures

\* C5: a scan has started only when cache_grid_update_system has finished, and
\* that system has started only when move_system and wrap_borders_system have
\* finished; while a scan runs, no step changes the index, a position or a
\* heading (the species table is a constant of the model).
C5_PhasesSeparate ==
    /\ [](/\ \A s \in Scans : sys[s] # "idle" => sys["cache"] = "done"
          /\ sys["cache"] # "idle" => sys["move"] = "done" /\ sys["wrap"] = "done")
    /\ [][(\E s \in Scans : sys[s] = "running") =>
              /\ cache_grid' = cache_grid
              /\ creatures' = creatures]_vars

\* one task of a scan over several chunks has sent its events, another has not
C5_Witness ==
    /\ \E s \in Scans : sys[s] = "running"
    /\ \E k \in DOMAIN tasks : tasks[k].done
    /\ \E k \in DOMAIN tasks : ~tasks[k].done
    /\ channel # <<>>

\* C6: while the state is Paused no step changes the index, the position or
\* heading of a creature, or the events sent; the end of a paused frame removes
\* the creatures a kill click named and adds the creature a spawn click made;
\* a frame in which P was pressed ends in the other state.
C6_PausedFreezes ==
    [][/\ sim_state = "Paused" =>
            /\ cache_grid' = cache_grid
            /\ events' = events
            /\ channel' = channel
            /\ \A e \in DOMAIN creatures \cap DOMAIN creatures' :
                  /\ creatures'[e].pos = creatures[e].pos
                  /\ creatures'[e].dir = creatures[e].dir
            /\ (phase = "frame" /\ phase' = "idle") =>
                  /\ \A k \in DOMAIN commands :
                        commands[k].op = "despawn" =>
                            commands[k].entity \notin DOMAIN creatures'
                  /\ (\E k \in DOMAIN commands : commands[k].op = "spawn") =>
                        next_entity \in DOMAIN creatures'
       /\ (phase = "frame" /\ phase' = "idle" /\ input.key_p) =>
            sim_state' = Toggled(sim_state)
       /\ (phase = "frame" /\ phase' = "idle" /\ ~input.key_p) =>
            sim_state' = sim_state]_vars

\* kill_system has run in a paused frame and has found creatures to remove
C6_Witness ==
    /\ sim_state = "Paused"
    /\ last_finished = "kill"
    /\ commands # <<>>

\* C7: every creature's heading has unit length.
C7_UnitHeadings ==
    \A e \in DOMAIN creatures : IsUnit(creatures[e].dir)

\* C8: when wrap_borders_system has finished, every creature's x lies within
\* [-width/2, width/2] and its y within [-height/2, height/2].
C8_InsideAfterWrap ==
    last_finished = "wrap" =>
        \A e \in DOMAIN creatures :
            /\ ~IsNaN(creatures[e].pos)
            /\ 2 * Abs(creatures[e].pos[1]) <= window.width
            /\ 2 * Abs(creatures[e].pos[2]) <= window.height

\* C9: no event a scan has sent carries a NaN force.
C9_NoNaNIntent ==
    /\ \A k \in DOMAIN channel : ~IsNaN(channel[k].force)
    /\ \A k \in DOMAIN events : ~IsNaN(events[k].force)

----------------------------------------------------------------------------
(* Claims about the settings panel *)

\* C10: whenever statistics_system has yet to run in the frame, the
\* CreatureType of every live creature is a key of the species table.
C10_SpeciesKnown ==
    (ui_phase = "frame" /\ "statistics" \notin ui_ran) =>
        \A e \in DOMAIN creature_type_of : creature_type_of[e] \in DOMAIN factor_info

\* C11: no system that has yet to run in the frame finds the table renumbered
\* while a creature of the removed species, asked to be despawned, is still
\* alive.
C11_RemovalAtomic ==
    (ui_phase = "frame" /\ ui_ran # {"factors", "statistics"}) =>
        ui_commands \cap DOMAIN creature_type_of = {}

\* the species that "Remove Selected" removes in this frame
RemovedIndex == IF ui_input.select = -1 THEN selected_creature_type ELSE ui_input.select

\* factors_system runs with the "Remove Selected" button pressed
RemovalStep ==
    /\ ui_phase = "frame"
    /\ "factors" \notin ui_ran
    /\ "factors" \in ui_ran'
    /\ ui_input.click = "remove"
    /\ Cardinality(DOMAIN factor_info) >= 2

\* C35: removing species k from n >= 2 species leaves the keys 0..n-2; each
\* other species has its factors under its index, one less if it was above
\* k; its predator set is the renumbered former members other than k; each
\* creature of another species names the species it named before; and the
\* selected index is a key.
C35_RemovalRenumbers ==
    [][RemovalStep =>
          LET k == RemovedIndex
              n == Cardinality(DOMAIN factor_info)
              new(i) == IF i > k THEN i - 1 ELSE i
          IN /\ DOMAIN factor_info' = 0..(n - 2)
             /\ \A i \in DOMAIN factor_info \ {k} :
                   /\ factor_info'[new(i)].speed = factor_info[i].speed
                   /\ factor_info'[new(i)].predator_of =
                         {new(j) : j \in factor_info[i].predator_of \ {k}}
             /\ \A e \in DOMAIN creature_type_of :
                   creature_type_of[e] # k =>
                       /\ e \in DOMAIN creature_type_of'
                       /\ creature_type_of'[e] \in DOMAIN factor_info'
                       /\ factor_info'[creature_type_of'[e]].speed =
                             factor_info[creature_type_of[e]].speed
             /\ selected_creature_type' \in DOMAIN factor_info'
      ]_vars

\* C35 witness: the middle one of three species has been removed; the last
\* species, now at index 1, preyed on it and on the first, and a creature of
\* the last species is alive
C35_Witness ==
    /\ ui_phase = "frame"
    /\ "factors" \in ui_ran
    /\ ui_input.click = "remove"
    /\ ui_input.select = 1
    /\ DOMAIN factor_info = 0..1
    /\ factor_info[1].speed = 52
    /\ factor_info[1].predator_of = {0, 1}
    /\ \E e \in DOMAIN creature_type_of : creature_type_of[e] = 1 /\ e \notin ui_commands

----------------------------------------------------------------------------
(* Claims about the feature flags *)

----------------------------------------------------------------------------
(* Claims about kill and spawn clicks *)

\* C13: the creatures a kill click removes are exactly the live creatures whose
\* species is in the filter and whose position is within the radius of the
\* cursor.
C13_KillWithinRadius ==
    [][(last_finished = "kill" /\ last_finished' = "end") =>
          DOMAIN creatures \ DOMAIN creatures' =
              {e \in DOMAIN creatures :
                  /\ creatures[e].type \in input.kill_properties.creature_types
                  /\ Within(creatures[e].pos, input.cursor,
                            input.kill_properties.radius)}]_vars

\* C14: a spawn click with amount N adds exactly N creatures of the chosen
\* species, each within the radius of the cursor and with a unit heading, and
\* changes no creature that was there before.
C14_SpawnWithinRadius ==
    [][(last_finished = "spawn" /\ last_finished' = "end") =>
          /\ Cardinality(DOMAIN creatures' \ DOMAIN creatures) =
                input.spawn_properties.amount
          /\ \A e \in DOMAIN creatures' \ DOMAIN creatures :
                /\ creatures'[e].type = input.spawn_properties.creature_type
                /\ Within(creatures'[e].pos, input.cursor,
                          input.spawn_properties.radius)
                /\ IsUnit(creatures'[e].dir)
          /\ \A e \in DOMAIN creatures :
                e \in DOMAIN creatures' /\ creatures'[e] = creatures[e]]_vars

\* C18: the cell of an indexed entity, and the first cell of a query, is the
\* coordinate divided by the chunk resolution and rounded toward negative
\* infinity (wherever that quotient fits the cell type), so a coordinate in
\* [-resolution, 0) is in cell -1.
C18_FloorCells ==
    LET Fits(c) == I8_MIN <= c \div CHUNK_RESOLUTION /\ c \div CHUNK_RESOLUTION <= I8_MAX
    IN /\ \A e \in DOMAIN indexed_pos :
             (Fits(indexed_pos[e][1]) /\ Fits(indexed_pos[e][2])) =>
                 cache_grid.associations[e] =
                     <<indexed_pos[e][2] \div CHUNK_RESOLUTION,
                       indexed_pos[e][1] \div CHUNK_RESOLUTION>>
       /\ nearby.called =>
             LET q == QueryCells(nearby.position, nearby.radius)
                 x_begin == nearby.position[1] - nearby.radius
                 y_begin == nearby.position[2] - nearby.radius
             IN (Fits(x_begin) /\ Fits(y_begin)) =>
                    /\ q.i_begin = y_begin \div CHUNK_RESOLUTION
                    /\ q.j_begin = x_begin \div CHUNK_RESOLUTION

\* C19: the stored cell of an entity is the quotient of its coordinates by the
\* chunk resolution, and a query neither panics on its additions nor visits a
\* range other than from the quotient of the begin coordinate to that quotient
\* plus ceil(2 * radius / resolution).  (The quotient is taken as the code
\* rounds it; the coordinates and radii of the model all fit 32 bits.)
C19_NoSaturation ==
    /\ \A e \in DOMAIN indexed_pos :
          cache_grid.associations[e] =
              <<TruncDiv(indexed_pos[e][2], CHUNK_RESOLUTION),
                TruncDiv(indexed_pos[e][1], CHUNK_RESOLUTION)>>
    /\ nearby.called =>
          /\ ~crashed
          /\ LET q == QueryCells(nearby.position, nearby.radius)
                 span == CeilDiv(2 * nearby.radius, CHUNK_RESOLUTION)
                 i_begin == TruncDiv(nearby.position[2] - nearby.radius, CHUNK_RESOLUTION)
                 j_begin == TruncDiv(nearby.position[1] - nearby.radius, CHUNK_RESOLUTION)
             IN /\ q.i_begin = i_begin /\ q.i_end = i_begin + span
                /\ q.j_begin = j_begin /\ q.j_end = j_begin + span

\* C20: once a scan has started in a frame, every live creature is associated
\* in the index, with the cell of the position it holds and as an entry of that
\* cell.  (The position is the one of this tick, which is within the one tick
\* the claim allows.)
C20_IndexedAtScan ==
    (phase = "frame" /\ \E s \in Scans : sys[s] # "idle") =>
        \A e \in DOMAIN creatures :
            /\ e \in DOMAIN cache_grid.associations
            /\ cache_grid.associations[e] = CellOf(creatures[e].pos)
            /\ CellOf(creatures[e].pos) \in DOMAIN cache_grid.grid
            /\ e \in cache_grid.grid[CellOf(creatures[e].pos)]

\* the frame after a paused frame: a scan runs, the creature that was there
\* before the pause has moved once more, and the creature spawned during the
\* pause is in the index
C20_Witness ==
    /\ frame = 2
    /\ sim_state = "Running"
    /\ \E s \in Scans : sys[s] = "running"
    /\ DOMAIN creatures = {1, 2}
    /\ creatures[1].pos = <<0, 0>>
    /\ 2 \in DOMAIN cache_grid.associations

----------------------------------------------------------------------------
(* Claims about a scan's tasks and channel *)

\* C21: while a scan runs, its tasks are as many as the pool has threads, the
\* sizes of their chunks differ by at most one, and every live creature is in
\* exactly one chunk.
C21_ChunkPerThread ==
    (\E s \in Scans : sys[s] = "running") =>
        /\ Len(tasks) = thread_num
        /\ \A j, k \in DOMAIN tasks :
              Len(tasks[j].chunk) - Len(tasks[k].chunk) <= 1
        /\ \A e \in DOMAIN creatures :
              Cardinality({jk \in (DOMAIN tasks) \X (1..Cardinality(DOMAIN creatures)) :
                              /\ jk[2] \in DOMAIN tasks[jk[1]].chunk
                              /\ tasks[jk[1]].chunk[jk[2]] = e}) = 1

\* C22: no scan panics, whatever the population and the number of threads.
C22_ScansComplete ==
    ~crashed

\* C23: the receiver has passed no event on before every task of the scan has
\* finished its chunk.
C23_JoinBeforeDrain ==
    (\E s \in Scans : sys[s] = "running") =>
        (drained > 0 => \A k \in DOMAIN tasks : tasks[k].done)

\* C24: a scan that has spawned its tasks returns; when it returns, every task
\* has sent all its events, and the events the receiver passed on are those
\* events, each as many times as it was sent.
C24_DrainCompletes ==
    /\ \A s \in Scans : (sys[s] = "running") ~> (sys[s] = "done")
    /\ [][\A s \in Scans :
             (sys[s] = "running" /\ sys'[s] = "done") =>
                 LET passed == SubSeq(events, Len(events) - drained + 1, Len(events))
                     Count(seq, x) == Cardinality({i \in DOMAIN seq : seq[i] = x})
                     sent(x) == Cardinality(
                         {ki \in (DOMAIN tasks) \X (1..Len(events)) :
                             /\ ki[2] \in DOMAIN TaskIntents(s, tasks[ki[1]])
                             /\ TaskIntents(s, tasks[ki[1]])[ki[2]] = x})
                 IN /\ drained <= Len(events)
                    /\ events' = events
                    /\ \A k \in DOMAIN tasks :
                          tasks[k].sent = Len(TaskIntents(s, tasks[k]))
                    /\ \A k \in DOMAIN tasks :
                          \A i \in DOMAIN TaskIntents(s, tasks[k]) :
                              Count(passed, TaskIntents(s, tasks[k])[i])
                                  = sent(TaskIntents(s, tasks[k])[i])
                    /\ \A i \in DOMAIN passed : sent(passed[i]) > 0]_vars

\* a scan with two tasks is about to return: both tasks sent events, and all of
\* them have been passed on
C24_Witness ==
    /\ \E s \in Scans : sys[s] = "running"
    /\ Len(tasks) = 2
    /\ \A k \in DOMAIN tasks : tasks[k].done /\ tasks[k].sent >= 2
    /\ channel = <<>>
    /\ drained >= 4

----------------------------------------------------------------------------
(* Claims about the integrator *)

\* the events of a queue that are addressed to one entity, in queue order
RECURSIVE EventsOf(_, _)
EventsOf(evs, e) ==
    IF evs = <<>> THEN <<>>
    ELSE (IF Head(evs).entity = e THEN <<Head(evs)>> ELSE <<>>) \o EventsOf(Tail(evs), e)

\* a heading after normalize(lerp(heading, force, factor * dt)) for each event in turn
RECURSIVE HeadingAfter(_, _, _)
HeadingAfter(dir, evs, delta5) ==
    IF evs = <<>> THEN dir
    ELSE HeadingAfter(DirectionLerp(dir, Head(evs).force, Head(evs).factor, delta5),
                      Tail(evs), delta5)

\* C25: when apply_force_event_system runs, every scan of the frame has
\* returned and each creature's heading becomes what the events addressed to
\* it make of it, each applied once in queue order, nothing else of a creature
\* changing; the queue holds only events of this frame; once the system has
\* run no heading changes again in the frame; and a frame does not end, in
\* either state and whatever state change is scheduled, with events it has
\* not applied.
C25_EachIntentOnce ==
    [][/\ (sys["apply"] = "idle" /\ sys'["apply"] = "done") =>
             /\ \A s \in Scans : sys[s] = "done"
             /\ DOMAIN creatures' = DOMAIN creatures
             /\ \A e \in DOMAIN creatures :
                   creatures'[e] =
                       [creatures[e] EXCEPT
                           !.dir = HeadingAfter(@, EventsOf(events, e), input.delta5)]
       /\ (sys["apply"] = "done" /\ phase' = "frame") =>
             \A e \in DOMAIN creatures : creatures'[e].dir = creatures[e].dir
       /\ (phase = "frame" /\ phase' = "idle") =>
             /\ events # <<>> => sys["apply"] = "done"
             /\ events' = <<>>
       /\ (phase = "idle") => events = <<>>]_vars

\* the system has run on a queue that holds several events for one creature,
\* in a frame in which P was pressed
C25_Witness ==
    /\ sys["apply"] = "done"
    /\ scheduled = "Paused"
    /\ \E e \in DOMAIN creatures : Len(EventsOf(events, e)) >= 2

----------------------------------------------------------------------------
(* Claims about the order of a frame's events *)

\* the events of the scans in `order`, each scan walking the whole population
\* on one thread
RECURSIVE InOrderIntents(_, _, _)
InOrderIntents(order, cs, cg) ==
    IF order = <<>> THEN <<>>
    ELSE ChunkIntents(Head(order), cs, cg, SetToSeq(DOMAIN cs))
         \o InOrderIntents(Tail(order), cs, cg)

\* apply_force_event_system is taking its step
ApplyStep == sys["apply"] = "idle" /\ sys'["apply"] = "done"

\* some creature's heading after the step is not the one the scans give when
\* each runs on one thread, in the order in which they returned
HeadingOffInOrder ==
    \E e \in DOMAIN creatures :
        creatures'[e].dir #
            HeadingAfter(creatures[e].dir,
                         EventsOf(InOrderIntents(scan_order, creatures, cache_grid), e),
                         input.delta5)

\* C26, as stated: when the tasks' events reached the queue in another order
\* than one thread would have sent them in, and a creature has several of
\* them, the difference shows in a heading.
C26_ScheduleShowsInHeading ==
    [][(/\ ApplyStep
        /\ events # InOrderIntents(scan_order, creatures, cache_grid)
        /\ \E e \in DOMAIN creatures : Len(EventsOf(events, e)) >= 2)
       => HeadingOffInOrder]_vars

\* C26, amended: whatever the number of threads and however the tasks and
\* the receiver were scheduled, the headings apply_force_event_system leaves
\* are those the scans give when each runs on one thread, in the order in
\* which the scans returned.
C26_ScheduleDoesNotShow == [][ApplyStep => ~HeadingOffInOrder]_vars

\* the system has run on a queue that two tasks filled in another order than
\* one thread would have, with several events for one creature
C26_Witness ==
    /\ sys["apply"] = "done"
    /\ thread_num = 2
    /\ events # InOrderIntents(scan_order, creatures, cache_grid)
    /\ Len(events) = Len(InOrderIntents(scan_order, creatures, cache_grid))
    /\ \E e \in DOMAIN creatures : Len(EventsOf(events, e)) >= 2

\* C27: when a scan returns, the events it has added to the queue that are
\* addressed to a creature are the ones the body of the scan sends for that
\* creature, in the order in which it sends them, all of them sent by the
\* task whose chunk holds the creature; they follow everything the scans
\* that returned earlier added, and no two scans run at a time.
C27_OwnWorkersOrder ==
    [][/\ \A s \in Scans :
             (sys[s] = "running" /\ sys'[s] = "done") =>
                 LET passed == SubSeq(events, Len(events) - drained + 1, Len(events))
                 IN /\ Len(events) - drained =
                          Len(InOrderIntents(scan_order, creatures, cache_grid))
                    /\ \A e \in DOMAIN creatures :
                          /\ EventsOf(passed, e) = ScanIntents(s, creatures, cache_grid, e)
                          /\ \A k \in DOMAIN tasks :
                                EventsOf(TaskIntents(s, tasks[k]), e) # <<>> =>
                                    /\ \E i \in DOMAIN tasks[k].chunk : tasks[k].chunk[i] = e
                                    /\ EventsOf(TaskIntents(s, tasks[k]), e) = EventsOf(passed, e)
       /\ Cardinality({s \in Scans : sys[s] = "running"}) <= 1
       /\ Cardinality({s \in Scans : sys'[s] = "running"}) <= 1]_vars

\* a scan on two threads has returned after another scan, having added its
\* events in another order than one thread would have, three or more of them
\* for one creature
C27_Witness ==
    /\ Len(scan_order) = 2
    /\ sys["apply"] = "idle"
    /\ thread_num = 2
    /\ events # InOrderIntents(scan_order, creatures, cache_grid)
    /\ \E e \in DOMAIN creatures :
          Len(EventsOf(ChunkIntents(scan_order[2], creatures, cache_grid,
                                    SetToSeq(DOMAIN creatures)), e)) >= 3

----------------------------------------------------------------------------
(* Claims about what a scan sends for a creature *)

\* the other live creatures of a's species within a's vision, and within half of it
InVision(a) ==
    {b \in DOMAIN creatures \ {a} :
        /\ creatures[b].type = creatures[a].type
        /\ Within(creatures[a].pos, creatures[b].pos, AllFactors[creatures[a].type].vision)}

InHalfVision(a) ==
    {b \in DOMAIN creatures \ {a} :
        /\ creatures[b].type = creatures[a].type
        /\ WithinHalf(creatures[a].pos, creatures[b].pos, AllFactors[creatures[a].type].vision)}

SumOfPositions(S) == VSum([k \in 1..Cardinality(S) |-> creatures[SetToSeq(S)[k]].pos])

SumOfHeadings(S) == VSum([k \in 1..Cardinality(S) |-> creatures[SetToSeq(S)[k]].dir])

\* cohesion and alignment when someone is in vision, separation when someone
\* is in half of it (normalize() takes a sum as it takes the average)
FlockingTail(a) ==
    LET factors == AllFactors[creatures[a].type]
        pa      == creatures[a].pos
    IN (IF InVision(a) # {}
        THEN <<ForceEvent(a, Normalize(VSub(SumOfPositions(InVision(a)),
                                            VScale(Cardinality(InVision(a)), pa))),
                          factors.cohesion),
               ForceEvent(a, Normalize(SumOfHeadings(InVision(a))), factors.alignment)>>
        ELSE <<>>)
       \o (IF InHalfVision(a) # {}
           THEN <<ForceEvent(a, Normalize(VSub(VScale(Cardinality(InHalfVision(a)), pa),
                                               SumOfPositions(InHalfVision(a)))),
                             factors.separation)>>
           ELSE <<>>)

\* the events `own` end with FlockingTail(a), and every event before it pushes
\* a away from a creature it touches
EndsWithFlockingTail(own, a) ==
    LET rest == Len(own) - Len(FlockingTail(a))
    IN /\ rest >= 0
       /\ SubSeq(own, rest + 1, Len(own)) = FlockingTail(a)
       /\ \A i \in 1..rest :
             /\ own[i].factor = AllFactors[creatures[a].type].collision_avoidance
             /\ \E b \in DOMAIN creatures \ {a} :
                   /\ Within(creatures[a].pos, creatures[b].pos,
                             2 * AllFactors[creatures[a].type].size_x)
                   /\ own[i].force = Normalize(VSub(creatures[a].pos, creatures[b].pos))

\* C28: the events a task of the flocking scan sends for a creature, and the
\* events the scan has added to the queue for it when it returns, end with
\* one cohesion and one alignment event exactly if another live creature of
\* its species is within its vision, then one separation event exactly if one
\* is within half its vision, computed from those creatures alone; every
\* event before them pushes the creature away from a creature it touches.
C28_FlockingCounts ==
    [][sys["flocking"] = "running" =>
          /\ \A k \in DOMAIN tasks :
                \A i \in DOMAIN tasks[k].chunk :
                    EndsWithFlockingTail(
                        EventsOf(TaskIntents("flocking", tasks[k]), tasks[k].chunk[i]),
                        tasks[k].chunk[i])
          /\ sys'["flocking"] = "done" =>
                \A a \in DOMAIN creatures :
                    EndsWithFlockingTail(
                        EventsOf(SubSeq(events, Len(events) - drained + 1, Len(events)), a),
                        a)]_vars

\* the flocking scan has returned in a world where a creature has one of its
\* species and one of another species within its vision
C28_Witness ==
    /\ sys["flocking"] = "done"
    /\ \E a \in DOMAIN creatures :
          /\ InVision(a) # {}
          /\ EventsOf(events, a) # <<>>
          /\ \E b \in DOMAIN creatures \ {a} :
                /\ creatures[b].type # creatures[a].type
                /\ Within(creatures[a].pos, creatures[b].pos,
                          AllFactors[creatures[a].type].vision)

\* the other live creatures, of any species, that a touches
Touching(a) ==
    {b \in DOMAIN creatures \ {a} :
        Within(creatures[a].pos, creatures[b].pos, 2 * AllFactors[creatures[a].type].size_x)}

\* C29: the events a task of the flocking scan sends for a creature hold one
\* collision-avoidance event for each other live creature, of whatever
\* species, within twice the creature's size, directed from that creature to
\* it.
C29_CollisionAnySpecies ==
    sys["flocking"] = "running" =>
        \A k \in DOMAIN tasks :
            \A i \in DOMAIN tasks[k].chunk :
                LET a   == tasks[k].chunk[i]
                    own == EventsOf(TaskIntents("flocking", tasks[k]), a)
                    away(b) == ForceEvent(a, Normalize(VSub(creatures[a].pos, creatures[b].pos)),
                                          AllFactors[creatures[a].type].collision_avoidance)
                IN /\ Len(own) - Len(FlockingTail(a)) = Cardinality(Touching(a))
                   /\ \A b \in Touching(a) :
                         \E j \in 1..(Len(own) - Len(FlockingTail(a))) : own[j] = away(b)

\* the Boids a Chaser sees
MainPrey(a) ==
    {b \in DOMAIN creatures \ {a} :
        /\ creatures[a].type = "Chaser"
        /\ creatures[b].type = "Boid"
        /\ Dist2(creatures[a].pos, creatures[b].pos)
               < MainFactors.Chaser.vision * MainFactors.Chaser.vision}

\* the nearest of them, the one seen first among equals
MainNearest(a) ==
    CHOOSE b \in MainPrey(a) :
        \A c \in MainPrey(a) :
            \/ Dist2(creatures[a].pos, creatures[b].pos) < Dist2(creatures[a].pos, creatures[c].pos)
            \/ /\ Dist2(creatures[a].pos, creatures[b].pos) = Dist2(creatures[a].pos, creatures[c].pos)
               /\ b <= c

\* C30: once chase_system has run, a creature with prey in its vision has
\* been given exactly one chase, toward the nearest prey (the first seen of
\* those equally near), also when it sees one prey only or saw the nearest
\* first; a creature with no prey in its vision has been given none.
C30_ChaseNearest ==
    sys["chase"] = "done" =>
        \A a \in DOMAIN creatures :
            EventsOf(events, a) =
                IF MainPrey(a) = {} THEN <<>>
                ELSE <<ForceEvent(a, Normalize(VSub(creatures[MainNearest(a)].pos,
                                                    creatures[a].pos)),
                                  MainFactors.Chaser.chase)>>

----------------------------------------------------------------------------
(* Claims about the scans under any species table *)

\* the events the system of scan s adds in the step it takes
AddedBy(s) ==
    IF sys[s] = "idle" /\ sys'[s] = "done"
    THEN SubSeq(events', Len(events) + 1, Len(events'))
    ELSE <<>>

\* the live creatures within a's vision whose species preys on a's
Hunters(a) ==
    {b \in DOMAIN creatures \ {a} :
        /\ Within(creatures[a].pos, creatures[b].pos, all_factors[creatures[a].type].vision)
        /\ creatures[a].type \in all_factors[creatures[b].type].will_chase}

\* C31: when the scare scan has run, a creature a has been sent a flee event
\* away from another live creature b within its vision exactly if b's
\* species lists a's species as prey, whatever the species table: one event
\* for each such b, with the weight scare of a, and no other.
C31_FleeIffChased ==
    [][(sys["scare"] = "idle" /\ sys'["scare"] = "done") =>
          \A a \in DOMAIN creatures :
              /\ Len(EventsOf(AddedBy("scare"), a)) = Cardinality(Hunters(a))
              /\ \A b \in Hunters(a) :
                    \E i \in DOMAIN AddedBy("scare") :
                        AddedBy("scare")[i] =
                            ForceEvent(a, Normalize(VSub(creatures[a].pos, creatures[b].pos)),
                                       all_factors[creatures[a].type].scare)]_vars

\* the live creatures other than a within a's vision
OthersInVision(a) ==
    {b \in DOMAIN creatures \ {a} :
        Within(creatures[a].pos, creatures[b].pos, all_factors[creatures[a].type].vision)}

\* C32: every event a scan adds for a creature is owed to a live creature
\* other than itself within its vision: a flee or chase event lies on the
\* line through the two, and a flocking event needs one of them to exist.
\* The creature itself, and a candidate farther away, add nothing.
C32_OnlyLiveOthersInVision ==
    [][\A s \in Scans :
          \A i \in DOMAIN AddedBy(s) :
              LET ev == AddedBy(s)[i]
                  a  == ev.entity
              IN /\ a \in DOMAIN creatures
                 /\ \E b \in OthersInVision(a) :
                       s \in {"scare", "chase"} =>
                           \/ ev.force = Normalize(VSub(creatures[a].pos, creatures[b].pos))
                           \/ ev.force = Normalize(VSub(creatures[b].pos, creatures[a].pos))]_vars

\* how many times x occurs in a sequence
Occurrences(seq, x) == Cardinality({i \in DOMAIN seq : seq[i] = x})

\* two sequences hold the same elements the same number of times
SameMultiset(s1, s2) ==
    /\ Len(s1) = Len(s2)
    /\ \A i \in DOMAIN s1 : Occurrences(s1, s1[i]) = Occurrences(s2, s1[i])

\* C33: whatever the creatures, the index and the species table (a species
\* that lists itself as prey included), the events a scan system adds are,
\* as a multiset, the events its counterpart of the other build adds from
\* the same state.
C33_BuildsAgree ==
    [][\A s \in Scans :
          (sys[s] = "idle" /\ sys'[s] = "done") =>
              SameMultiset(AddedBy(s),
                           SystemIntents(~is_wasm, s, all_factors, creatures, cache_grid,
                                         SetToSeq(DOMAIN creatures)))]_vars

----------------------------------------------------------------------------
(* Claims about what a query returns *)

\* C38: whatever update_entity calls came before and whatever the query
\* point and radius, the Vec that get_nearby_entities returns holds no
\* entity twice.
C38_NoDuplicates ==
    nearby.called =>
        \A j \in DOMAIN nearby.result, k \in DOMAIN nearby.result :
            j # k => nearby.result[j] # nearby.result[k]

\* C38 witness: a query made right after an entity was moved from one cell
\* to another has returned two entities, taken from two cells
C38_Witness ==
    /\ nearby.called
    /\ ~crashed
    /\ last_update.called
    /\ last_update.moved
    /\ Len(nearby.result) >= 2
    /\ \E j \in DOMAIN nearby.result, k \in DOMAIN nearby.result :
          /\ nearby.result[j] \in DOMAIN cache_grid.associations
          /\ nearby.result[k] \in DOMAIN cache_grid.associations
          /\ cache_grid.associations[nearby.result[j]] #
                cache_grid.associations[nearby.result[k]]

----------------------------------------------------------------------------
(* Claims about the wrap step *)

\* C36: a second pass of the wrap step, of either build, over positions that
\* one pass has wrapped leaves every position as it is, and no coordinate
\* meets the condition of a wrap again.
C36_WrapIdempotent ==
    [][(frame = 1 /\ frame' = 2) =>
          \A e \in DOMAIN creatures :
              /\ creatures'[e].pos = creatures[e].pos
              /\ (last_finished = "wrap" /\ ~IsNaN(creatures[e].pos)) =>
                     /\ 2 * Abs(creatures[e].pos[1]) < window.width
                     /\ 2 * Abs(creatures[e].pos[2]) < window.height
      ]_vars

\* C36 witness: after two passes of wrap_borders_system over a creature that
\* was beyond the right and on the lower border, it is one inside the left
\* and the upper border
C36_Witness ==
    /\ frame = 2
    /\ last_finished = "wrap"
    /\ creatures[1].changed
    /\ creatures[1].pos = <<-(window.width \div 2) + 1, (window.height \div 2) - 1>>

\* some creature's position is beyond a border of the window
OutsideWindow(cs, win) ==
    \E e \in DOMAIN cs :
        /\ ~IsNaN(cs[e].pos)
        /\ \/ 2 * Abs(cs[e].pos[1]) > win.width
           \/ 2 * Abs(cs[e].pos[2]) > win.height

\* C37: in a frame wrap_borders_system runs only when move_system has
\* finished, and when cache_grid_update_system or a scan starts no creature
\* is beyond a border of the window.
C37_WrapAfterMove ==
    [][ /\ (sys["wrap"] = "idle" /\ sys'["wrap"] # "idle") => sys["move"] = "done"
        /\ (\E s \in {"cache"} \cup Scans : sys[s] = "idle" /\ sys'[s] # "idle")
              => ~OutsideWindow(creatures, window)
      ]_vars

----------------------------------------------------------------------------
(* Claims about when Commands take effect *)

\* the entities that the queued commands despawn
Despawned(cmds) == {cmds[k].entity : k \in {j \in DOMAIN cmds : cmds[j].op = "despawn"}}

\* the queued spawn commands
SpawnsIn(cmds) == {k \in DOMAIN cmds : cmds[k].op = "spawn"}

\* C34: a pass of kill_system or spawn_system leaves the creatures as they
\* are and its despawn commands name creatures that were there before the
\* frame's spawns; at the end of the stage each despawned creature is gone,
\* however many commands name it, each spawn command has added one creature,
\* and every other creature is as it was.
C34_CommandsAfterPass ==
    [][ /\ (\E s \in {"kill", "spawn"} : sys[s] = "idle" /\ sys'[s] = "done")
            => /\ creatures' = creatures
               /\ Despawned(commands') \subseteq DOMAIN creatures
        /\ (phase = "frame" /\ phase' = "idle")
            => /\ ~crashed'
               /\ DOMAIN creatures' =
                     (DOMAIN creatures \ Despawned(commands))
                        \cup (next_entity .. (next_entity + Cardinality(SpawnsIn(commands)) - 1))
               /\ next_entity' = next_entity + Cardinality(SpawnsIn(commands))
               /\ \A e \in DOMAIN creatures \cap DOMAIN creatures' : creatures'[e] = creatures[e]
      ]_vars

\* C34 witness: at the end of a stage two despawn commands name the same
\* creature and a spawn command places a creature inside the kill square
C34_Witness ==
    /\ phase = "frame"
    /\ sys["kill"] = "done"
    /\ sys["spawn"] = "done"
    /\ \E j \in DOMAIN commands, k \in DOMAIN commands :
          /\ j # k
          /\ commands[j].op = "despawn"
          /\ commands[k].op = "despawn"
          /\ commands[j].entity = commands[k].entity
    /\ \E k \in SpawnsIn(commands) :
          /\ commands[k].type \in KillPropertiesDefault.creature_types
          /\ commands[k].pos[1] >= input.cursor[1] - KillPropertiesDefault.radius
          /\ commands[k].pos[1] <= input.cursor[1] + KillPropertiesDefault.radius
          /\ commands[k].pos[2] >= input.cursor[2] - KillPropertiesDefault.radius
          /\ commands[k].pos[2] <= input.cursor[2] + KillPropertiesDefault.radius

----------------------------------------------------------------------------
(* Claims about energy, predation and reproduction *)

\* C15: between ticks the energy of every live agent is above 0 and at most the
\* maximum energy of its species: an agent whose energy reached 0 or less was
\* removed when its tick ended.
C15_EnergyBounded ==
    life_ran = {} =>
        \A e \in Live(agents) :
            /\ agents[e].energy > 0
            /\ agents[e].energy <= max_energy[agents[e].type]

\* C16: after a predation-kill pass, for live agents a and b in contact: if only
\* a's species hunts b's, b is to be removed and a has gained the reward; if each
\* hunts the other and a has strictly more energy, b is to be removed and a has
\* gained the reward; if each hunts the other and their energies are equal, a is
\* not to be removed unless a third agent in contact hunts it.  The agents to be
\* removed are gone when the tick ends.
C16_PredationOutcome ==
    [][/\ ("kill" \notin life_ran /\ "kill" \in life_ran') =>
            \A a, b \in Live(agents) :
                (a # b /\ InContact(agents, a, b) /\ Preys(agents, a, b)) =>
                    /\ ~Preys(agents, b, a) =>
                          /\ b \in life_queue'.despawn
                          /\ agents'[a].energy >= agents[a].energy + LifeRules.reward
                    /\ (Preys(agents, b, a) /\ agents[a].energy > agents[b].energy) =>
                          /\ b \in life_queue'.despawn
                          /\ agents'[a].energy >= agents[a].energy + LifeRules.reward
                    /\ (Preys(agents, b, a) /\ agents[a].energy = agents[b].energy) =>
                          \/ a \notin life_queue'.despawn
                          \/ \E c \in Live(agents) \ {a, b} :
                                InContact(agents, c, a) /\ Preys(agents, c, a)
       /\ (life_ran = LifePasses /\ life_ran' = {}) =>
            \A e \in life_queue.despawn : ~agents'[e].alive]_vars

\* the predation-kill pass has run on two agents in contact that hunt each
\* other: the one with less energy is to be removed, the other is not
C16_Witness ==
    /\ "kill" \in life_ran
    /\ \E a, b \in Live(agents) :
          /\ a # b
          /\ InContact(agents, a, b)
          /\ Preys(agents, a, b) /\ Preys(agents, b, a)
          /\ b \in life_queue.despawn
          /\ a \notin life_queue.despawn

\* C17: after a reproduction pass, two live agents of one species within
\* 2 * size of each other, each the other's only such neighbour and both with a
\* timer of 0, have their timers at the cooldown and an offspring of their
\* species is to be spawned; each offspring has two agents of its own that
\* reproduced; every live agent that did not reproduce has its timer one tick
\* lower, and not below 0.  The offspring are alive when the tick ends.
C17_ReproductionOutcome ==
    [][/\ ("reproduce" \notin life_ran /\ "reproduce" \in life_ran') =>
            /\ \A a, b \in Live(agents) :
                  ( /\ Partners(agents, a, {}) = {b}
                    /\ Partners(agents, b, {}) = {a}
                    /\ agents[a].fertility_timer = 0
                    /\ agents[b].fertility_timer = 0 ) =>
                      /\ agents'[a].fertility_timer = LifeFactors[agents[a].type].cooldown
                      /\ agents'[b].fertility_timer = LifeFactors[agents[b].type].cooldown
                      /\ \E i \in (Len(life_queue.spawn) + 1)..Len(life_queue'.spawn) :
                            life_queue'.spawn[i].type = agents[a].type
            /\ Cardinality(reproduced') =
                  2 * (Len(life_queue'.spawn) - Len(life_queue.spawn))
            /\ \A e \in Live(agents) \ reproduced' :
                  /\ agents'[e].fertility_timer >= 0
                  /\ agents'[e].fertility_timer =
                        IF agents[e].fertility_timer = 0 THEN 0
                        ELSE agents[e].fertility_timer - 1
       /\ (life_ran = LifePasses /\ life_ran' = {}) =>
            /\ Len(agents') = Len(agents) + Len(life_queue.spawn)
            /\ \A i \in 1..Len(life_queue.spawn) :
                  /\ agents'[Len(agents) + i].alive
                  /\ agents'[Len(agents) + i].type = life_queue.spawn[i].type]_vars

\* the reproduction pass has run on three agents of one species that are all
\* ready and within reach of each other: two have reproduced, one offspring is
\* to be spawned, and the third was left without a partner
C17_Witness ==
    /\ "reproduce" \in life_ran
    /\ Len(life_queue.spawn) = 1
    /\ reproduced = {1, 2}
    /\ agents[3].alive
    /\ agents[3].fertility_timer = 0
    /\ Partners(agents, 3, {}) = {1, 2}

=============================================================================
